---------------------------- MODULE Spec2Model ----------------------------
(***************************************************************************)
(* A model of the Interpreter repository: the tree-walking evaluator of    *)
(* src/src/ast/expression.rs and src/src/ast/statement.rs, the lexer of    *)
(* src/src/token.rs and the recursive-descent parser of src/src/parser.rs. *)
(*                                                                         *)
(* Values, errors, results and syntax-tree nodes are records of one shape  *)
(* per type (a tag and every payload field, unused fields holding a        *)
(* default), so that equality of two of them is Rust's derived equality.   *)
(***************************************************************************)
EXTENDS Integers, Sequences, FiniteSets, TLC

(***************************************************************************)
(* Bounds of the model.                                                    *)
(***************************************************************************)
\* Largest magnitude of an integer held by the harness environment.
MaxInt == 3
\* Iterations of one loop statement that the model follows.
MaxIter == 12
\* Nesting depth of function calls that the model follows.
MaxDepth == 6
\* Largest limit N of the counting loops that are evaluated.
MaxCount == 10
\* Largest single-digit literal of the texts that are tokenized and parsed.
MaxLit == 3
\* Longest list the harness environment holds.
MaxListLen == 3
\* Largest argument fib is called with.
MaxFib == 5

(***************************************************************************)
(* Value (expression.rs:14-20).                                            *)
(***************************************************************************)
IntValue(i) == [kind |-> "IntValue", i |-> i, b |-> FALSE, l |-> <<>>]
BoolValue(b) == [kind |-> "BoolValue", i |-> 0, b |-> b, l |-> <<>>]
ListValue(l) == [kind |-> "List", i |-> 0, b |-> FALSE, l |-> l]
NoneValue == [kind |-> "None", i |-> 0, b |-> FALSE, l |-> <<>>]

\* The position of a variant in the enum, which derive(Ord) compares first.
VariantRank(v) ==
    CASE v.kind = "IntValue" -> 0
      [] v.kind = "BoolValue" -> 1
      [] v.kind = "List" -> 2
      [] OTHER -> 3

RECURSIVE ValueCmp(_, _)
RECURSIVE SeqCmp(_, _, _)
\* derive(Ord) on Vec<Value>: lexicographic, a proper prefix is smaller.
SeqCmp(s, t, i) ==
    IF i > Len(s) /\ i > Len(t) THEN 0
    ELSE IF i > Len(s) THEN -1
    ELSE IF i > Len(t) THEN 1
    ELSE LET c == ValueCmp(s[i], t[i])
         IN  IF c # 0 THEN c ELSE SeqCmp(s, t, i + 1)

\* derive(PartialOrd, Ord) on Value: -1, 0 or 1.
ValueCmp(x, y) ==
    IF VariantRank(x) # VariantRank(y)
    THEN (IF VariantRank(x) < VariantRank(y) THEN -1 ELSE 1)
    ELSE CASE x.kind = "IntValue" ->
                (IF x.i < y.i THEN -1 ELSE IF x.i > y.i THEN 1 ELSE 0)
           [] x.kind = "BoolValue" ->
                (IF x.b = y.b THEN 0 ELSE IF y.b THEN -1 ELSE 1)
           [] x.kind = "List" -> SeqCmp(x.l, y.l, 1)
           [] OTHER -> 0

(***************************************************************************)
(* EvalError (error.rs:3-7; the evaluator also builds EvalError::Error     *)
(* with a message).                                                        *)
(***************************************************************************)
NoError == [kind |-> "NoError", text |-> "", causes |-> <<>>]
UnknownVariable(name) == [kind |-> "UnknownVariable", text |-> name, causes |-> <<>>]
Error(msg) == [kind |-> "Error", text |-> msg, causes |-> <<>>]
MultipleError(errs) == [kind |-> "MultipleError", text |-> "", causes |-> errs]

(***************************************************************************)
(* Results.  k is "Ok" or "Err" for a call that returns; "Panic" for a     *)
(* call that aborts the process; "Hang" for one that never returns;        *)
(* "Unfinished" for one the model does not follow to its end (MaxIter,     *)
(* MaxDepth).  For a statement, se is the StatementEval variant            *)
(* (statement.rs:29-33); for an expression it is "Value".                  *)
(***************************************************************************)
Ok(v) == [k |-> "Ok", se |-> "Value", v |-> v, e |-> NoError]
Err(e) == [k |-> "Err", se |-> "Value", v |-> NoneValue, e |-> e]
Panic == [k |-> "Panic", se |-> "Value", v |-> NoneValue, e |-> NoError]
Hang == [k |-> "Hang", se |-> "Value", v |-> NoneValue, e |-> NoError]
Unfinished == [k |-> "Unfinished", se |-> "Value", v |-> NoneValue, e |-> NoError]
OkReturn(v) == [k |-> "Ok", se |-> "Return", v |-> v, e |-> NoError]
OkBreak == [k |-> "Ok", se |-> "Break", v |-> NoneValue, e |-> NoError]
OkNone == [k |-> "Ok", se |-> "None", v |-> NoneValue, e |-> NoError]

\* The call came back to its caller, with a value or an error.
Returned(r) == r.k \in {"Ok", "Err"}

(***************************************************************************)
(* Expr (expression.rs:24-35), Statement (statement.rs:11-25),             *)
(* Declaration (declaration.rs:15-18).                                     *)
(***************************************************************************)
ConstExpr(v) == [node |-> "ConstExpr", value |-> v, name |-> "", op |-> "", args |-> <<>>]
NegExpr(e) == [node |-> "NegExpr", value |-> NoneValue, name |-> "", op |-> "", args |-> <<e>>]
ParenthesisExpr(e) == [node |-> "ParenthesisExpr", value |-> NoneValue, name |-> "", op |-> "", args |-> <<e>>]
BinaryExpr(l, op, r) == [node |-> "BinaryExpr", value |-> NoneValue, name |-> "", op |-> op, args |-> <<l, r>>]
CompareExpr(l, cmp, r) == [node |-> "CompareExpr", value |-> NoneValue, name |-> "", op |-> cmp, args |-> <<l, r>>]
AssignmentExpr(name, e) == [node |-> "AssignmentExpr", value |-> NoneValue, name |-> name, op |-> "", args |-> <<e>>]
IdentExpr(name) == [node |-> "IdentExpr", value |-> NoneValue, name |-> name, op |-> "", args |-> <<>>]
FunctionCall(name, inputs) == [node |-> "FunctionCall", value |-> NoneValue, name |-> name, op |-> "", args |-> inputs]
ListExpr(values) == [node |-> "List", value |-> NoneValue, name |-> "", op |-> "", args |-> values]
ListAccess(name, index) == [node |-> "ListAccess", value |-> NoneValue, name |-> name, op |-> "", args |-> <<index>>]

NoExpr == ConstExpr(NoneValue)
SimpleStatement(e) == [stmt |-> "SimpleStatement", expr |-> e, body |-> <<>>]
CompoundStatement(statements) == [stmt |-> "CompoundStatement", expr |-> NoExpr, body |-> statements]
ReturnStatement(e) == [stmt |-> "Return", expr |-> e, body |-> <<>>]
If(condition, body) == [stmt |-> "If", expr |-> condition, body |-> <<body>>]
IfElse(condition, body, else_statement) == [stmt |-> "If", expr |-> condition, body |-> <<body, else_statement>>]
Loop(body) == [stmt |-> "Loop", expr |-> NoExpr, body |-> <<body>>]
Break == [stmt |-> "Break", expr |-> NoExpr, body |-> <<>>]

Function(name, args, body) == [fname |-> name, fargs |-> args, fbody |-> body]

\* Option<&Module>: None, or a module with its declarations (module.rs:8-10).
NoModule == [some |-> FALSE, declarations |-> <<>>]
SomeModule(declarations) == [some |-> TRUE, declarations |-> declarations]


(***************************************************************************)
(* The environment: HashMap<String, Value>.                                *)
(***************************************************************************)
EmptyEnv == [x \in {} |-> NoneValue]

\* HashMap::insert
Insert(buf, name, v) ==
    [x \in (DOMAIN buf) \cup {name} |-> IF x = name THEN v ELSE buf[x]]

\* HashMap::get of an IdentExpr
Lookup(buf, name) ==
    IF name \in DOMAIN buf THEN Ok(buf[name]) ELSE Err(UnknownVariable(name))

(***************************************************************************)
(* Expr::eval, one operator per match arm.  The arms that evaluate         *)
(* sub-expressions take the sub-results; an operand that aborts or never   *)
(* returns ends the whole evaluation the same way.                         *)
(***************************************************************************)
Abs(x) == IF x < 0 THEN -x ELSE x

\* i64 division truncates toward zero.
TruncDiv(l, r) ==
    IF (l < 0) = (r < 0) THEN Abs(l) \div Abs(r) ELSE -(Abs(l) \div Abs(r))

\* The inner match on op; a zero divisor aborts.
IntArith(op, l, r) ==
    CASE op = "Plus" -> Ok(IntValue(l + r))
      [] op = "Minus" -> Ok(IntValue(l - r))
      [] op = "Times" -> Ok(IntValue(l * r))
      [] OTHER -> IF r = 0 THEN Panic ELSE Ok(IntValue(TruncDiv(l, r)))

\* NegExpr
NegResult(r) ==
    IF ~Returned(r) THEN r
    ELSE IF r.k = "Err" THEN r
    ELSE IF r.v.kind = "IntValue" THEN Ok(IntValue(-r.v.i))
    ELSE Err(Error("A negative express only applies to type Int and Float"))

\* BinaryExpr, line 70: both operands failed.
AggregateErrorsFirstOnly(err1, err2) == Err(err1)
AggregateErrors(err1, err2) == Err(MultipleError(<<err1, err2>>))

RightOperandEvaluatedIfLeftOk(l) == l.k = "Ok"

\* BinaryExpr and CompareExpr, `match (l.eval(buf, module), r.eval(buf, module))`:
\* whether r.eval is called, l being the result of l.eval. The pair is
\* built before the match looks at it, so only a left operand that does
\* not come back keeps the right one from being evaluated.
RightOperandEvaluated(l) == Returned(l)

\* BinaryExpr: the match on the pair of operand results.
BinaryResult(l, op, r) ==
    IF ~Returned(l) THEN l
    ELSE IF ~Returned(r) THEN r
    ELSE IF l.k = "Ok" /\ r.k = "Ok"
         THEN IF l.v.kind = "IntValue" /\ r.v.kind = "IntValue"
              THEN IntArith(op, l.v.i, r.v.i)
              ELSE IF l.v.kind = "List" /\ r.v.kind = "List"
              THEN (IF op = "Plus"
                    THEN Ok(ListValue(l.v.l \o r.v.l))
                    ELSE Err(Error("Only addition is supported for list")))
              ELSE Panic
    ELSE IF l.k = "Err" /\ r.k = "Ok" THEN l
    ELSE IF l.k = "Ok" /\ r.k = "Err" THEN r
    ELSE AggregateErrors(l.e, r.e)

\* Expr::eval_compare_expr
EvalCompareExpr(left, op, right) ==
    LET c == ValueCmp(left, right)
    IN  CASE op = "Equal" -> BoolValue(left = right)
          [] op = "Lower" -> BoolValue(c < 0)
          [] op = "LowerEq" -> BoolValue(c <= 0)
          [] op = "Higher" -> BoolValue(c > 0)
          [] OTHER -> BoolValue(c >= 0)

\* CompareExpr: the match on the pair of operand results.
CompareResult(l, op, r) ==
    IF ~Returned(l) THEN l
    ELSE IF ~Returned(r) THEN r
    ELSE IF l.k = "Ok" /\ r.k = "Ok" THEN Ok(EvalCompareExpr(l.v, op, r.v))
    ELSE IF l.k = "Err" THEN l
    ELSE r

\* AssignmentExpr: the result of the expression, given the result of its
\* right-hand side.
AssignResult(r) ==
    IF ~Returned(r) THEN r ELSE Ok(NoneValue)

AssignBindIfAbsent(buf, name, r) ==
    IF r.k = "Ok" /\ name \notin DOMAIN buf THEN Insert(buf, name, r.v) ELSE buf

\* AssignmentExpr: the environment left by the expression, given the
\* result of its right-hand side and the environment that evaluation left.
AssignBind(buf, name, r) ==
    IF r.k = "Ok" THEN Insert(buf, name, r.v) ELSE buf

\* ListAccess: the lookup, once the index has evaluated to r.
ListAccessResult(buf, name, r) ==
    IF ~Returned(r) THEN r
    ELSE IF r.k = "Err" THEN r
    ELSE IF r.v.kind # "IntValue"
    THEN Err(Error("When accessing a list, the index must be of type int"))
    ELSE IF name \notin DOMAIN buf THEN Err(UnknownVariable(name))
    ELSE IF buf[name].kind # "List" THEN Err(Error("Only list can be accessed"))
    ELSE IF r.v.i < 0 \/ r.v.i >= Len(buf[name].l) THEN Panic
    ELSE Ok(buf[name].l[r.v.i + 1])

\* Module::get_function: the first declaration of that name, if any.
HasFunction(module, name) ==
    \E i \in 1..Len(module.declarations) : module.declarations[i].fname = name

GetFunction(module, name) ==
    LET i == CHOOSE i \in 1..Len(module.declarations) :
                 /\ module.declarations[i].fname = name
                 /\ \A j \in 1..(i - 1) : module.declarations[j].fname # name
    IN  module.declarations[i]

\* FunctionCall: the environment the callee starts from.
NewFunctionInputsFromCaller(buf) == buf
NewFunctionInputs(buf) == EmptyEnv

\* FunctionCall, line 108: the caller's environment after the call, buf being
\* that environment once the arguments are evaluated and function_inputs
\* the environment the body ran in.
CallerBufSharedWithCallee(buf, function_inputs) == function_inputs
CallerBufMergedWithCallee(buf, function_inputs) ==
    [x \in (DOMAIN buf) \cup (DOMAIN function_inputs) |->
        IF x \in DOMAIN function_inputs THEN function_inputs[x] ELSE buf[x]]
CallerBuf(buf, function_inputs) == buf

\* FunctionCall: what the call yields, given the result of the body.
CallResult(r) ==
    IF ~Returned(r) THEN r
    ELSE IF r.k = "Err" THEN r
    ELSE IF r.se = "Return" THEN Ok(r.v)
    ELSE Ok(NoneValue)

(***************************************************************************)
(* Statement::eval, the arms that combine sub-results.                     *)
(***************************************************************************)
\* SimpleStatement
SimpleResult(r) ==
    IF ~Returned(r) THEN r ELSE IF r.k = "Err" THEN r ELSE OkNone

\* Return
ReturnResult(r) ==
    IF ~Returned(r) THEN r ELSE IF r.k = "Err" THEN r ELSE OkReturn(r.v)

\* CompoundStatement: the environment the block's statements run in ...
CopiedEnvironment(inputs) == inputs

\* ... and the environment the caller is left with, copied being the
\* block's environment at its end.
AfterCompoundWriteBack(inputs, copied) == copied
AfterCompound(inputs, copied) == inputs

IfTestIntegersTruthy(cond) ==
    CASE cond.kind = "IntValue" -> Ok(BoolValue(TRUE))
      [] cond.kind = "BoolValue" -> Ok(BoolValue(cond.b))
      [] cond.kind = "None" -> Err(Error("'None' can't be casted to bool"))
      [] OTHER -> Err(Error("List can't be casted to bool"))

\* If: "then", "else" or "none" for the branch taken, or the type error.
IfTest(cond) ==
    CASE cond.kind = "IntValue" -> Ok(BoolValue(cond.i # 0))
      [] cond.kind = "BoolValue" -> Ok(BoolValue(cond.b))
      [] cond.kind = "None" -> Err(Error("'None' can't be casted to bool"))
      [] OTHER -> Err(Error("List can't be casted to bool"))

\* Loop: what one pass over the body, ending with r, makes of the loop:
\* "again" for another pass, or the loop's result.
LoopAfterPass(r) ==
    IF ~Returned(r) THEN r
    ELSE IF r.k = "Err" THEN OkNone
    ELSE IF r.se = "Break" THEN OkNone
    ELSE [k |-> "Again", se |-> "None", v |-> NoneValue, e |-> NoError]

\* Loop, line 100: the environment the next pass starts from, inputs
\* being the one this pass started from and passed the one it left.
NextPassEnvFresh(inputs, passed) == inputs
NextPassEnv(inputs, passed) == passed

EndsListOnErrorOnly(r) == r.k # "Ok"

\* eval_statement_list: whether the result r of one statement ends the list.
EndsList(r) == ~(r.k = "Ok" /\ r.se = "None")

(***************************************************************************)
(* The recursive walk.  Every operator yields [res, buf]: the result and   *)
(* the environment the call leaves in the caller's map.                    *)
(***************************************************************************)
RECURSIVE EvalExpr(_, _, _, _)
RECURSIVE EvalArgs(_, _, _, _, _, _, _)
RECURSIVE EvalListItems(_, _, _, _, _, _)
RECURSIVE EvalStatement(_, _, _, _)
RECURSIVE EvalStatementList(_, _, _, _, _)
RECURSIVE EvalLoop(_, _, _, _, _)

\* FunctionCall, lines 99-106: binds parameter i and the following ones;
\* the argument expressions are evaluated in the caller's buf.
EvalArgs(args, inputs, i, buf, function_inputs, module, depth) ==
    IF i > Len(args) THEN [res |-> OkNone, buf |-> buf, fin |-> function_inputs]
    ELSE IF i > Len(inputs) THEN [res |-> Panic, buf |-> buf, fin |-> function_inputs]
    ELSE LET r == EvalExpr(inputs[i], buf, module, depth)
         IN  IF ~Returned(r.res)
             THEN [res |-> r.res, buf |-> r.buf, fin |-> function_inputs]
             ELSE EvalArgs(args, inputs, i + 1, r.buf,
                           IF r.res.k = "Ok"
                           THEN Insert(function_inputs, args[i], r.res.v)
                           ELSE function_inputs,
                           module, depth)

\* List, lines 117-126
EvalListItems(values, i, buf, to_return, module, depth) ==
    IF i > Len(values) THEN [res |-> Ok(ListValue(to_return)), buf |-> buf]
    ELSE LET r == EvalExpr(values[i], buf, module, depth)
         IN  IF r.res.k = "Ok"
             THEN EvalListItems(values, i + 1, r.buf, Append(to_return, r.res.v), module, depth)
             ELSE r

EvalExpr(e, buf, module, depth) ==
    CASE e.node = "ConstExpr" -> [res |-> Ok(e.value), buf |-> buf]
      [] e.node = "NegExpr" ->
            LET r == EvalExpr(e.args[1], buf, module, depth)
            IN  [res |-> NegResult(r.res), buf |-> r.buf]
      [] e.node = "ParenthesisExpr" -> EvalExpr(e.args[1], buf, module, depth)
      [] e.node = "BinaryExpr" ->
            LET l == EvalExpr(e.args[1], buf, module, depth)
                r == IF RightOperandEvaluated(l.res)
                     THEN EvalExpr(e.args[2], l.buf, module, depth) ELSE l
            IN  [res |-> BinaryResult(l.res, e.op, r.res), buf |-> r.buf]
      [] e.node = "CompareExpr" ->
            LET l == EvalExpr(e.args[1], buf, module, depth)
                r == IF RightOperandEvaluated(l.res)
                     THEN EvalExpr(e.args[2], l.buf, module, depth) ELSE l
            IN  [res |-> CompareResult(l.res, e.op, r.res), buf |-> r.buf]
      [] e.node = "AssignmentExpr" ->
            LET r == EvalExpr(e.args[1], buf, module, depth)
            IN  [res |-> AssignResult(r.res), buf |-> AssignBind(r.buf, e.name, r.res)]
      [] e.node = "IdentExpr" -> [res |-> Lookup(buf, e.name), buf |-> buf]
      [] e.node = "FunctionCall" ->
            IF ~module.some THEN [res |-> Err(Error("Module not found")), buf |-> buf]
            ELSE IF ~HasFunction(module, e.name)
            THEN [res |-> Err(Error("Function not found")), buf |-> buf]
            ELSE LET f == GetFunction(module, e.name)
                     a == EvalArgs(f.fargs, e.args, 1, buf, NewFunctionInputs(buf), module, depth)
                 IN  IF ~Returned(a.res) THEN [res |-> a.res, buf |-> a.buf]
                     ELSE IF depth = 0 THEN [res |-> Unfinished, buf |-> a.buf]
                     ELSE [res |-> CallResult(EvalStatement(f.fbody, a.fin, module, depth - 1).res),
                           buf |-> CallerBuf(a.buf, a.fin)]
      [] e.node = "List" -> EvalListItems(e.args, 1, buf, <<>>, module, depth)
      [] OTHER ->
            LET r == EvalExpr(e.args[1], buf, module, depth)
            IN  [res |-> ListAccessResult(r.buf, e.name, r.res), buf |-> r.buf]

\* eval_statement_list, from statement i on.
EvalStatementList(inputs, module, statements, i, depth) ==
    IF i > Len(statements) THEN [res |-> OkNone, buf |-> inputs]
    ELSE LET r == EvalStatement(statements[i], inputs, module, depth)
         IN  IF EndsList(r.res) THEN r
             ELSE EvalStatementList(r.buf, module, statements, i + 1, depth)

\* Loop, lines 100-107: the passes over the body, n more being followed.
EvalLoop(inputs, module, statements, n, depth) ==
    LET r == EvalStatementList(inputs, module, statements, 1, depth)
        after == LoopAfterPass(r.res)
    IN  IF after.k # "Again" THEN [res |-> after, buf |-> r.buf]
        ELSE IF NextPassEnv(inputs, r.buf) = inputs THEN [res |-> Hang, buf |-> r.buf]
        ELSE IF n = 0 THEN [res |-> Unfinished, buf |-> r.buf]
        ELSE EvalLoop(NextPassEnv(inputs, r.buf), module, statements, n - 1, depth)

EvalStatement(s, inputs, module, depth) ==
    CASE s.stmt = "SimpleStatement" ->
            LET r == EvalExpr(s.expr, inputs, module, depth)
            IN  [res |-> SimpleResult(r.res), buf |-> r.buf]
      [] s.stmt = "Return" ->
            LET r == EvalExpr(s.expr, inputs, module, depth)
            IN  [res |-> ReturnResult(r.res), buf |-> r.buf]
      [] s.stmt = "CompoundStatement" ->
            LET r == EvalStatementList(CopiedEnvironment(inputs), module, s.body, 1, depth)
            IN  [res |-> r.res, buf |-> AfterCompound(inputs, r.buf)]
      [] s.stmt = "If" ->
            LET c == EvalExpr(s.expr, inputs, module, depth)
                t == IfTest(c.res.v)
            IN  IF ~Returned(c.res) \/ c.res.k = "Err" THEN [res |-> c.res, buf |-> c.buf]
                ELSE IF t.k = "Err" THEN [res |-> t, buf |-> c.buf]
                ELSE IF t.v.b THEN EvalStatement(s.body[1], c.buf, module, depth)
                ELSE IF Len(s.body) = 2 THEN EvalStatement(s.body[2], c.buf, module, depth)
                ELSE [res |-> OkNone, buf |-> c.buf]
      [] s.stmt = "Loop" ->
            IF s.body[1].stmt = "CompoundStatement"
            THEN EvalLoop(inputs, module, s.body[1].body, MaxIter, depth)
            ELSE [res |-> Err(Error("A loop statement can only be associated with a compound statement.")),
                  buf |-> inputs]
      [] OTHER -> [res |-> OkBreak, buf |-> inputs]

(***************************************************************************)
(* Token (token.rs:23-46) and tokenize (token.rs:48-177).  A text is a     *)
(* sequence of characters, each a string of length one.                    *)
(***************************************************************************)
Tok(kind) == [tok |-> kind, int |-> 0, text |-> ""]
Integer(n) == [tok |-> "Integer", int |-> n, text |-> ""]
Ident(name) == [tok |-> "Ident", int |-> 0, text |-> name]
StringTok(chars) == [tok |-> "String", int |-> 0, text |-> chars]
TokenOp(op) == [tok |-> "TokenOp", int |-> 0, text |-> op]
TokenComp(cmp) == [tok |-> "TokenComp", int |-> 0, text |-> cmp]

DigitChars == <<"0", "1", "2", "3", "4", "5", "6", "7", "8", "9">>

\* char::to_digit(10)
IsDigit(c) == \E d \in 1..10 : DigitChars[d] = c
ToDigit(c) == (CHOOSE d \in 1..10 : DigitChars[d] = c) - 1

\* The letters of the texts that are tokenized.
Letters == {"a", "b", "c", "d", "e", "f", "i", "k", "l", "m", "n", "o", "p", "r", "s", "t", "u"}
IsAlphabetic(c) == c \in Letters
IsAlphanumeric(c) == IsAlphabetic(c) \/ IsDigit(c)

\* A word as the string the keyword table is matched against.
RECURSIVE Concat(_)
Concat(chars) == IF chars = <<>> THEN "" ELSE Head(chars) \o Concat(Tail(chars))

\* The keyword table, lines 87-97.
WordToken(word) ==
    CASE word = "return" -> Tok("Return")
      [] word = "fn" -> Tok("Fn")
      [] word = "if" -> Tok("If")
      [] word = "else" -> Tok("Else")
      [] word = "true" -> Tok("True")
      [] word = "false" -> Tok("False")
      [] word = "loop" -> Tok("Loop")
      [] word = "break" -> Tok("Break")
      [] OTHER -> Ident(word)

\* The characters that are one token each, lines 118-166; "/", "=", "<"
\* and ">" are decided with the character after them.
SingleChars == {"+", "-", "*", "(", ")", "{", "}", "[", "]", ";", ","}
SingleToken(c) ==
    CASE c = "+" -> TokenOp("Plus")
      [] c = "-" -> TokenOp("Minus")
      [] c = "*" -> TokenOp("Times")
      [] c = "(" -> Tok("LPar")
      [] c = ")" -> Tok("RPar")
      [] c = "{" -> Tok("LBrace")
      [] c = "}" -> Tok("RBrace")
      [] c = "[" -> Tok("LBracket")
      [] c = "]" -> Tok("RBracket")
      [] c = ";" -> Tok("SemiColon")
      [] OTHER -> Tok("Comma")

Whitespace == {" ", "\r", "\t", "\n"}

\* The position after the run of characters from i on that satisfy the
\* word test of line 80.
RECURSIVE WordEnd(_, _)
WordEnd(input, i) ==
    IF i <= Len(input) /\ (IsAlphanumeric(input[i]) \/ input[i] = "_")
    THEN WordEnd(input, i + 1) ELSE i

\* num is a u32 (char::to_digit yields u32), held as two 16-bit halves:
\* num = hi * Half + lo.
Half == 65536

\* Lines 63-70: the digits from i on accumulated into num.  checked is
\* whether the build checks arithmetic overflow (it then panics; otherwise
\* num wraps modulo 2^32).
RECURSIVE NumberEnd(_, _, _, _, _)
NumberEnd(input, i, hi, lo, checked) ==
    IF i <= Len(input) /\ IsDigit(input[i])
    THEN LET low == 10 * lo + ToDigit(input[i])
             high == 10 * hi + (low \div Half)
         IN  IF high >= Half /\ checked THEN [panic |-> TRUE, i |-> i, hi |-> hi, lo |-> lo]
             ELSE NumberEnd(input, i + 1, high % Half, low % Half, checked)
    ELSE [panic |-> FALSE, i |-> i, hi |-> hi, lo |-> lo]

\* num as i64
AsI64(hi, lo) == hi * Half + lo

\* The position of the first c from i on, or Len(input) + 1.
RECURSIVE Find(_, _, _)
Find(input, i, c) ==
    IF i > Len(input) \/ input[i] = c THEN i ELSE Find(input, i + 1, c)

SubSeqFrom(input, i, j) == [x \in 1..(j - i + 1) |-> input[i + x - 1]]

\* The loop of tokenize, ch being input[i].
RECURSIVE TokenizeFrom(_, _, _, _)
TokenizeFrom(input, i, tokens, checked) ==
    IF i > Len(input) THEN [k |-> "Ok", tokens |-> tokens, ch |-> ""]
    ELSE LET ch == input[i]
             two == IF i < Len(input) THEN input[i + 1] ELSE ""
         IN
         IF IsDigit(ch)
         THEN LET n == NumberEnd(input, i + 1, 0, ToDigit(ch), checked)
              IN  IF n.panic THEN [k |-> "Panic", tokens |-> tokens, ch |-> ""]
                  ELSE TokenizeFrom(input, n.i, Append(tokens, Integer(AsI64(n.hi, n.lo))), checked)
         ELSE IF IsAlphabetic(ch) \/ ch = "_"
         THEN LET j == WordEnd(input, i + 1)
              IN  TokenizeFrom(input, j,
                      Append(tokens, WordToken(Concat(SubSeqFrom(input, i, j - 1)))), checked)
         ELSE IF ch = "\""
         THEN LET j == Find(input, i + 1, "\"")
              IN  IF j > Len(input) THEN [k |-> "Ok", tokens |-> tokens, ch |-> ""]
                  ELSE TokenizeFrom(input, j + 1,
                           Append(tokens, StringTok(Concat(SubSeqFrom(input, i + 1, j - 1)))),
                           checked)
         ELSE IF ch = "/"
         THEN (IF two = "/"
               THEN TokenizeFrom(input, Find(input, i + 2, "\n") + 1, tokens, checked)
               ELSE TokenizeFrom(input, i + 1, Append(tokens, TokenOp("Div")), checked))
         ELSE IF ch = "="
         THEN (IF two = "="
               THEN TokenizeFrom(input, i + 2, Append(tokens, TokenComp("Equal")), checked)
               ELSE TokenizeFrom(input, i + 1, Append(tokens, Tok("Equal")), checked))
         ELSE IF ch = "<"
         THEN (IF two = "="
               THEN TokenizeFrom(input, i + 2, Append(tokens, TokenComp("LowerEq")), checked)
               ELSE TokenizeFrom(input, i + 1, Append(tokens, TokenComp("Lower")), checked))
         ELSE IF ch = ">"
         THEN (IF two = "="
               THEN TokenizeFrom(input, i + 2, Append(tokens, TokenComp("HigherEq")), checked)
               ELSE TokenizeFrom(input, i + 1, Append(tokens, TokenComp("Higher")), checked))
         ELSE IF ch \in SingleChars
         THEN TokenizeFrom(input, i + 1, Append(tokens, SingleToken(ch)), checked)
         ELSE IF ch \in Whitespace
         THEN TokenizeFrom(input, i + 1, tokens, checked)
         ELSE [k |-> "Err", tokens |-> <<>>, ch |-> ch]

\* tokenize(input): "Ok" with the tokens, "Err" with the unknown
\* character, or "Panic".
Tokenize(input, checked) == TokenizeFrom(input, 1, <<>>, checked)

(***************************************************************************)
(* Parser (parser.rs): the token sequence and a cursor, index, which       *)
(* counts from 0.  Every parse operator yields [ok, val, index]: whether   *)
(* it produced something, what, and the cursor it leaves.                  *)
(***************************************************************************)
NoToken == Tok("None")

\* Parser::peek; Parser::consume is a peek that leaves index + 1.
Peek(tokens, index) == IF index < Len(tokens) THEN tokens[index + 1] ELSE NoToken

SetIndexKeepsCursor(checkpoint, index) == index

\* Parser::set_index, called as self.set_index(checkpoint) where a failed
\* alternative gives up: the cursor after it, index being the cursor
\* the alternative had reached.
SetIndex(checkpoint, index) == checkpoint

Parsed(val, index) == [ok |-> TRUE, val |-> val, index |-> index]
NotParsed(index) == [ok |-> FALSE, val |-> NoExpr, index |-> index]

\* The operator tokens that parse_additive_expr (line 273) and
\* parse_multiplicative_expr (line 292) continue on.
IsAdditiveOp(t) == t.tok = "TokenOp" /\ t.text \in {"Plus", "Minus"}
IsAnyOp(t) == t.tok = "TokenOp"
IsMultiplicativeOp(t) == t.tok = "TokenOp" /\ t.text \in {"Times", "Div"}

\* What parse_additive_expr and parse_multiplicative_expr build from the
\* left operand, the operator and the operand parsed after it.
BuildBinary(left, op, right) == BinaryExpr(left, op, right)

\* `let r = ...;` followed by the code Rest that uses r: r is computed
\* once, then handed to Rest.
Bind(r, Rest(_)) == CHOOSE result \in {Rest(x) : x \in {r}} : TRUE

RECURSIVE ParseExpression(_, _)
RECURSIVE ParseAssignmentExpr(_, _)
RECURSIVE ParseFunctionCallExpr(_, _)
RECURSIVE ParseFunctionCallArguments(_, _, _)
RECURSIVE ParseAdditiveExpr(_, _)
RECURSIVE ParseMultiplicativeExpr(_, _)
RECURSIVE ParsePrimaryExpr(_, _)

\* Parser::parse_expression, lines 29-39; not ok is Err(UnknownSyntax).
ParseExpression(tokens, index) ==
    Bind(ParseAssignmentExpr(tokens, index), LAMBDA assign :
        IF assign.ok THEN assign
        ELSE Bind(ParseFunctionCallExpr(tokens, assign.index), LAMBDA call :
                 IF call.ok THEN call
                 ELSE ParseAdditiveExpr(tokens, call.index)))

\* parse_assignment_expr, lines 239-250
ParseAssignmentExpr(tokens, index) ==
    IF Peek(tokens, index).tok # "Ident" THEN NotParsed(SetIndex(index, index + 1))
    ELSE IF Peek(tokens, index + 1).tok # "Equal" THEN NotParsed(SetIndex(index, index + 2))
    ELSE Bind(ParseExpression(tokens, index + 2), LAMBDA expr :
             IF expr.ok
             THEN Parsed(AssignmentExpr(Peek(tokens, index).text, expr.val), expr.index)
             ELSE NotParsed(SetIndex(index, expr.index)))

\* The loop of parse_function_call_argument_list, lines 151-162; val holds
\* the arguments in its args.
ParseFunctionCallArguments(tokens, index, to_return) ==
    Bind(ParseExpression(tokens, index), LAMBDA expr :
        IF ~expr.ok THEN NotParsed(expr.index)
        ELSE LET more == Append(to_return, expr.val)
                 t == Peek(tokens, expr.index)
             IN  IF t.tok = "RPar" THEN Parsed(ListExpr(more), expr.index + 1)
                 ELSE IF t.tok = "Comma"
                 THEN ParseFunctionCallArguments(tokens, expr.index + 1, more)
                 ELSE ParseFunctionCallArguments(tokens, expr.index, more))

\* parse_function_call_argument_list, lines 141-166
ParseFunctionCallArgumentList(tokens, index) ==
    IF Peek(tokens, index).tok = "LPar"
    THEN IF Peek(tokens, index + 1).tok = "RPar"
         THEN Parsed(ListExpr(<<>>), index + 2)
         ELSE ParseFunctionCallArguments(tokens, index + 1, <<>>)
    ELSE NotParsed(index)

\* parse_function_call_expr, lines 252-263
ParseFunctionCallExpr(tokens, index) ==
    IF Peek(tokens, index).tok = "Ident"
    THEN Bind(ParseFunctionCallArgumentList(tokens, index + 1), LAMBDA arguments :
             IF arguments.ok
             THEN Parsed(FunctionCall(Peek(tokens, index).text, arguments.val.args),
                         arguments.index)
             ELSE NotParsed(SetIndex(index, arguments.index)))
    ELSE NotParsed(SetIndex(index, index))

\* parse_additive_expr, lines 270-286
ParseAdditiveExpr(tokens, index) ==
    Bind(ParseMultiplicativeExpr(tokens, index), LAMBDA left :
        IF ~left.ok THEN NotParsed(SetIndex(index, left.index))
        ELSE IF IsAdditiveOp(Peek(tokens, left.index))
        THEN Bind(ParseAdditiveExpr(tokens, left.index + 1), LAMBDA right :
                 IF right.ok
                 THEN Parsed(BuildBinary(left.val, Peek(tokens, left.index).text, right.val),
                             right.index)
                 ELSE NotParsed(SetIndex(index, right.index)))
        ELSE left)

\* parse_multiplicative_expr, lines 289-303
ParseMultiplicativeExpr(tokens, index) ==
    Bind(ParsePrimaryExpr(tokens, index), LAMBDA left :
        IF ~left.ok THEN NotParsed(SetIndex(index, left.index))
        ELSE IF IsMultiplicativeOp(Peek(tokens, left.index))
        THEN Bind(ParseMultiplicativeExpr(tokens, left.index + 1), LAMBDA right :
                 IF right.ok
                 THEN Parsed(BuildBinary(left.val, Peek(tokens, left.index).text, right.val),
                             right.index)
                 ELSE NotParsed(SetIndex(index, right.index)))
        ELSE left)

\* parse_primary_expr without its parenthesis branch
ParsePrimaryExprNoParenthesis(tokens, index) ==
    LET t == Peek(tokens, index)
    IN  IF t.tok = "Integer" THEN Parsed(ConstExpr(IntValue(t.int)), index + 1)
        ELSE IF t.tok = "True" THEN Parsed(ConstExpr(BoolValue(TRUE)), index + 1)
        ELSE IF t.tok = "False" THEN Parsed(ConstExpr(BoolValue(FALSE)), index + 1)
        ELSE IF t.tok = "Ident" THEN Parsed(IdentExpr(t.text), index + 1)
        ELSE IF t.tok = "TokenOp" /\ t.text = "Minus"
        THEN Bind(ParsePrimaryExpr(tokens, index + 1), LAMBDA expr :
                 IF expr.ok THEN Parsed(NegExpr(expr.val), expr.index)
                 ELSE NotParsed(expr.index))
        ELSE NotParsed(index)

\* parse_primary_expr, lines 306-343
ParsePrimaryExpr(tokens, index) ==
    LET t == Peek(tokens, index)
    IN  IF t.tok = "Integer" THEN Parsed(ConstExpr(IntValue(t.int)), index + 1)
        ELSE IF t.tok = "True" THEN Parsed(ConstExpr(BoolValue(TRUE)), index + 1)
        ELSE IF t.tok = "False" THEN Parsed(ConstExpr(BoolValue(FALSE)), index + 1)
        ELSE IF t.tok = "Ident" THEN Parsed(IdentExpr(t.text), index + 1)
        ELSE Bind(IF t.tok = "LPar" THEN ParseExpression(tokens, index + 1)
                  ELSE NotParsed(index + 1), LAMBDA inner :
                 IF inner.ok /\ Peek(tokens, inner.index).tok = "RPar"
                 THEN Parsed(ParenthesisExpr(inner.val), inner.index + 1)
                 ELSE Bind(SetIndex(index, IF inner.ok THEN inner.index + 1 ELSE inner.index),
                           LAMBDA restored :
                          IF Peek(tokens, restored).tok = "TokenOp"
                             /\ Peek(tokens, restored).text = "Minus"
                          THEN Bind(ParsePrimaryExpr(tokens, restored + 1), LAMBDA expr :
                                   IF expr.ok THEN Parsed(NegExpr(expr.val), expr.index)
                                   ELSE NotParsed(expr.index))
                          ELSE NotParsed(restored)))

\* Parser::is_finished
IsFinished(tokens, index) == index = Len(tokens)

\* The free function parse_expression, lines 347-362: k is "Ok" with the
\* tree, "TokensNotParsed" or "UnknownSyntax".
ParseExpressionAll(tokens) ==
    LET ast == ParseExpression(tokens, 0)
    IN  IF ~ast.ok THEN [k |-> "UnknownSyntax", ast |-> NoExpr, index |-> ast.index]
        ELSE IF IsFinished(tokens, ast.index) THEN [k |-> "Ok", ast |-> ast.val, index |-> ast.index]
        ELSE [k |-> "TokensNotParsed", ast |-> NoExpr, index |-> ast.index]

(***************************************************************************)
(* Statements and declarations.  The statement parsers yield              *)
(* [ok, val, index] with a statement as val; the loops yield the list      *)
(* parsed so far and the cursor the failed attempt left.                   *)
(***************************************************************************)
RECURSIVE ParseOneStatement(_, _)
RECURSIVE ParseStatementList(_, _, _)
RECURSIVE ParseCompoundStatement(_, _)

\* while let Some(stm) = self.parse_one_statement() { statements.push(stm); }
ParseStatementList(tokens, index, statements) ==
    Bind(ParseOneStatement(tokens, index), LAMBDA stm :
        IF stm.ok THEN ParseStatementList(tokens, stm.index, Append(statements, stm.val))
        ELSE [ok |-> TRUE, val |-> statements, index |-> stm.index])

\* parse_compound_statement, lines 219-236
ParseCompoundStatement(tokens, index) ==
    IF Peek(tokens, index).tok = "LBracket"
    THEN Bind(ParseStatementList(tokens, index + 1, <<>>), LAMBDA body :
             IF Peek(tokens, body.index).tok = "RBracket"
             THEN Parsed(CompoundStatement(body.val), body.index + 1)
             ELSE NotParsed(SetIndex(index, body.index)))
    ELSE NotParsed(SetIndex(index, index))

\* The if branch of parse_one_statement, lines 171-189; not ok when any
\* step of it fails, the cursor then going back to the checkpoint.
ParseIfStatement(tokens, index) ==
    IF Peek(tokens, index).tok # "If" THEN NotParsed(SetIndex(index, index + 1))
    ELSE IF Peek(tokens, index + 1).tok # "LPar" THEN NotParsed(SetIndex(index, index + 2))
    ELSE Bind(ParseExpression(tokens, index + 2), LAMBDA expr :
             IF ~expr.ok THEN NotParsed(SetIndex(index, expr.index))
             ELSE IF Peek(tokens, expr.index).tok # "RPar"
             THEN NotParsed(SetIndex(index, expr.index + 1))
             ELSE Bind(ParseCompoundStatement(tokens, expr.index + 1), LAMBDA body :
                      IF ~body.ok THEN NotParsed(SetIndex(index, body.index))
                      ELSE IF Peek(tokens, body.index).tok = "Else"
                      THEN Bind(ParseOneStatement(tokens, body.index + 1), LAMBDA else_statement :
                               IF else_statement.ok
                               THEN Parsed(IfElse(expr.val, body.val, else_statement.val),
                                           else_statement.index)
                               ELSE NotParsed(SetIndex(index, else_statement.index)))
                      ELSE Parsed(If(expr.val, body.val), body.index)))

\* parse_one_statement, lines 168-216
ParseOneStatement(tokens, index) ==
    Bind(ParseIfStatement(tokens, index), LAMBDA if_statement :
        IF if_statement.ok THEN if_statement
        ELSE IF Peek(tokens, if_statement.index).tok = "Return"
        THEN Bind(ParseExpression(tokens, if_statement.index + 1), LAMBDA expr :
                 IF expr.ok
                 THEN Parsed(ReturnStatement(expr.val),
                             IF Peek(tokens, expr.index).tok = "SemiColon"
                             THEN expr.index + 1 ELSE expr.index)
                 ELSE NotParsed(expr.index))
        ELSE Bind(ParseExpression(tokens, if_statement.index), LAMBDA expr :
                 IF expr.ok /\ Peek(tokens, expr.index).tok = "SemiColon"
                 THEN Parsed(SimpleStatement(expr.val), expr.index + 1)
                 ELSE ParseCompoundStatement(tokens, expr.index)))

\* Parser::parse_statements, lines 41-47 and 365-368
ParseStatements(tokens) == ParseStatementList(tokens, 0, <<>>)

\* The loop of parse_function_argument_list, lines 116-134; k is "Ok" or
\* the ParserError.
RECURSIVE ParseFunctionArguments(_, _, _)
ParseFunctionArguments(tokens, index, to_return) ==
    LET t == Peek(tokens, index)
    IN  IF index >= Len(tokens) THEN [k |-> "Ok", val |-> to_return, index |-> index]
        ELSE IF t.tok = "Ident"
        THEN ParseFunctionArguments(tokens, index + 1, Append(to_return, t.text))
        ELSE IF t.tok = "RPar" THEN [k |-> "Ok", val |-> to_return, index |-> index + 1]
        ELSE IF t.tok = "Comma" THEN ParseFunctionArguments(tokens, index + 1, to_return)
        ELSE [k |-> "WrongFunctionArgumentList", val |-> to_return, index |-> index]

\* parse_function_argument_list, lines 112-138
ParseFunctionArgumentList(tokens, index) ==
    IF Peek(tokens, index).tok = "LPar"
    THEN ParseFunctionArguments(tokens, index + 1, <<>>)
    ELSE [k |-> "ExpectedDifferentToken", val |-> <<>>, index |-> index]

NoFunction == Function("", <<>>, Break)

\* parse_one_function, lines 87-109: k is "Some" with the declaration,
\* "None" when the cursor is not on fn, or the ParserError.
ParseOneFunction(tokens, index) ==
    IF Peek(tokens, index).tok # "Fn" THEN [k |-> "None", val |-> NoFunction, index |-> index]
    ELSE IF Peek(tokens, index + 1).tok # "Ident"
    THEN [k |-> "ExpectedDifferentToken", val |-> NoFunction, index |-> index + 1]
    ELSE Bind(ParseFunctionArgumentList(tokens, index + 2), LAMBDA arguments :
             IF arguments.k # "Ok"
             THEN [k |-> arguments.k, val |-> NoFunction, index |-> arguments.index]
             ELSE Bind(ParseCompoundStatement(tokens, arguments.index), LAMBDA body :
                      IF body.ok
                      THEN [k |-> "Some",
                            val |-> Function(Peek(tokens, index + 1).text, arguments.val, body.val),
                            index |-> body.index]
                      ELSE [k |-> "WrongFunctionBody", val |-> NoFunction, index |-> body.index]))

\* The loop of parse_module, lines 51-53: last is what the attempt that
\* ended the loop yielded.
RECURSIVE ParseDeclarations(_, _, _)
ParseDeclarations(tokens, index, declarations) ==
    Bind(ParseOneFunction(tokens, index), LAMBDA ast :
        IF ast.k = "Some"
        THEN ParseDeclarations(tokens, ast.index, Append(declarations, ast.val))
        ELSE [val |-> declarations, index |-> ast.index, last |-> ast.k])

\* Parser::parse_module, lines 49-55
ParseModule(tokens) == SomeModule(ParseDeclarations(tokens, 0, <<>>).val)

\* Module::run (module.rs:29-34) and Declaration::eval
\* (declaration.rs:23-31): the body of main, evaluated in a new map.
ModuleRun(module) ==
    IF ~HasFunction(module, "main") THEN Err(Error("Function main not found"))
    ELSE EvalStatement(GetFunction(module, "main").fbody, EmptyEnv, module, MaxDepth).res

(***************************************************************************)
(* The programs that are evaluated.                                        *)
(***************************************************************************)
Names == {"a", "b"}
Ops == {"Plus", "Minus", "Times", "Div"}

Lit(i) == ConstExpr(IntValue(i))
Assign(name, e) == SimpleStatement(AssignmentExpr(name, e))
Block(statements) == CompoundStatement(statements)

\* fn foo() { return a; }  fn passthrough(a) { return a; }
\* fn other(a) { return b; }  fn shadow(a) { b = a; a = 2; return b; }
\* fn first() { a = 0; loop { a = a + 1; if (a == 3) { break; } return a; } return 0; }
\* fn recursive(n) { if (n == 0) { return 0; } return recursive(n - 1); }
TestModule ==
    SomeModule(<<
        Function("foo", <<>>, Block(<<ReturnStatement(IdentExpr("a"))>>)),
        Function("passthrough", <<"a">>, Block(<<ReturnStatement(IdentExpr("a"))>>)),
        Function("other", <<"a">>, Block(<<ReturnStatement(IdentExpr("b"))>>)),
        Function("shadow", <<"a">>,
                 Block(<<Assign("b", IdentExpr("a")), Assign("a", Lit(2)),
                         ReturnStatement(IdentExpr("b"))>>)),
        Function("first", <<>>,
                 Block(<<Assign("a", Lit(0)),
                         Loop(Block(<<Assign("a", BinaryExpr(IdentExpr("a"), "Plus", Lit(1))),
                                      If(CompareExpr(IdentExpr("a"), "Equal", Lit(3)),
                                         Block(<<Break>>)),
                                      ReturnStatement(IdentExpr("a"))>>)),
                         ReturnStatement(Lit(0))>>)),
        Function("recursive", <<"n">>,
                 Block(<<If(CompareExpr(IdentExpr("n"), "Equal", Lit(0)),
                            Block(<<ReturnStatement(Lit(0))>>)),
                         ReturnStatement(FunctionCall("recursive",
                             <<BinaryExpr(IdentExpr("n"), "Minus", Lit(1))>>))>>))
    >>)

\* fn fib(n) { if (n == 0) { return 0; } if (n == 1) { return 1; }
\*             return fib(n - 1) + fib(n - 2); }
FibModule ==
    SomeModule(<<
        Function("fib", <<"n">>,
                 Block(<<If(CompareExpr(IdentExpr("n"), "Equal", Lit(0)),
                            Block(<<ReturnStatement(Lit(0))>>)),
                         If(CompareExpr(IdentExpr("n"), "Equal", Lit(1)),
                            Block(<<ReturnStatement(Lit(1))>>)),
                         ReturnStatement(
                             BinaryExpr(
                                 FunctionCall("fib", <<BinaryExpr(IdentExpr("n"), "Minus", Lit(1))>>),
                                 "Plus",
                                 FunctionCall("fib", <<BinaryExpr(IdentExpr("n"), "Minus", Lit(2))>>)))>>))
    >>)

\* fn stray() { a = 1; break; return a; }
\* fn main() { if (1) { break; } return 1; }
BreakModule ==
    SomeModule(<<
        Function("stray", <<>>,
                 Block(<<Assign("a", Lit(1)), Break, ReturnStatement(IdentExpr("a"))>>)),
        Function("main", <<>>,
                 Block(<<If(Lit(1), Block(<<Break>>)), ReturnStatement(Lit(1))>>))
    >>)

\* fn foo(n) { return 2 * n; }  fn main() { return foo(1) + foo(2); }
SumModule ==
    SomeModule(<<
        Function("foo", <<"n">>,
                 Block(<<ReturnStatement(BinaryExpr(Lit(2), "Times", IdentExpr("n")))>>)),
        Function("main", <<>>,
                 Block(<<ReturnStatement(BinaryExpr(FunctionCall("foo", <<Lit(1)>>), "Plus",
                                                    FunctionCall("foo", <<Lit(2)>>)))>>))
    >>)

\* fn f(a) { return 1; }
ConstantModule ==
    SomeModule(<<Function("f", <<"a">>, Block(<<ReturnStatement(Lit(1))>>))>>)

Modules == {TestModule, FibModule, BreakModule, SumModule}

\* The calls evaluated with one of these modules.
ModuleCalls ==
    {[what |-> "expr", expr |-> FunctionCall("fib", <<Lit(n)>>), stmt |-> Break,
      module |-> FibModule] : n \in 0..MaxFib}
    \cup {[what |-> "expr", expr |-> FunctionCall(f, <<>>), stmt |-> Break,
           module |-> BreakModule] : f \in {"stray", "main"}}
    \cup {[what |-> "expr", expr |-> FunctionCall("foo", <<IdentExpr(n)>>), stmt |-> Break,
           module |-> SumModule] : n \in {"n", "a"}}
    \cup {[what |-> "expr", expr |-> FunctionCall("f", <<IdentExpr(n)>>), stmt |-> Break,
           module |-> ConstantModule] : n \in {"n", "a"}}

\* Operands: constants, identifiers, a list literal, and an assignment in
\* parentheses (which binds a and evaluates to the no-value marker).
Atoms ==
    {Lit(1), ConstExpr(BoolValue(TRUE)), ListExpr(<<Lit(1)>>),
     ParenthesisExpr(AssignmentExpr("a", Lit(1)))}
    \cup {IdentExpr(n) : n \in Names}

BinaryExprs == {BinaryExpr(x, op, y) : x \in Atoms, op \in Ops, y \in Atoms}

CompareExprs == {CompareExpr(x, "Equal", y) : x \in Atoms, y \in Atoms}

\* A binary expression as the left or the right operand of another.
NestedExprs ==
    {BinaryExpr(BinaryExpr(IdentExpr(x), "Plus", IdentExpr(y)), op, z) :
        x \in Names, y \in Names, op \in {"Plus", "Div"}, z \in {Lit(1), IdentExpr("b")}}
    \cup {BinaryExpr(Lit(1), "Minus", BinaryExpr(IdentExpr(x), "Times", IdentExpr(y))) :
        x \in Names, y \in Names}

Rhs ==
    Atoms
    \cup {BinaryExpr(IdentExpr(n), "Plus", Lit(1)) : n \in Names}
    \cup {BinaryExpr(IdentExpr("a"), op, IdentExpr("b")) : op \in {"Plus", "Div"}}
    \cup {AssignmentExpr(n, Lit(2)) : n \in Names}

AssignmentExprs == {AssignmentExpr(n, e) : n \in Names, e \in Rhs}

CallExprs ==
    {FunctionCall(f, <<>>) : f \in {"foo", "first", "missing"}}
    \cup {FunctionCall(f, <<x>>) : f \in {"foo", "passthrough", "other", "shadow"},
                                    x \in {Lit(1), IdentExpr("a"), IdentExpr("b")}}
    \cup {FunctionCall("recursive", <<Lit(i)>>) : i \in 0..2}
    \cup {FunctionCall(f, <<>>) : f \in {"passthrough", "other"}}
    \cup {AssignmentExpr("b", FunctionCall("passthrough", <<IdentExpr("a")>>))}
    \cup {FunctionCall("shadow", <<AssignmentExpr("a", Lit(1))>>)}

\* a = [1, 2, 3] and a[i], for indices inside and outside the list.
ListAccessExprs ==
    {AssignmentExpr("a", ListExpr(<<Lit(1), Lit(2), Lit(3)>>))}
    \cup {ListAccess("a", Lit(i)) : i \in 0..3}
    \cup {ListAccess("a", BinaryExpr(Lit(0), "Minus", Lit(1))),
          ListAccess("a", IdentExpr("b")),
          ListAccess("a", ConstExpr(BoolValue(TRUE)))}

ExprCalls ==
    {[what |-> "expr", expr |-> e, stmt |-> Break, module |-> NoModule] :
        e \in BinaryExprs \cup CompareExprs \cup NestedExprs \cup AssignmentExprs \cup Atoms
              \cup ListAccessExprs}
    \cup {[what |-> "expr", expr |-> e, stmt |-> Break, module |-> m] :
        e \in CallExprs, m \in {NoModule, TestModule}}

Increment(n) == Assign(n, BinaryExpr(IdentExpr(n), "Plus", Lit(1)))
BreakAt(n, limit) == If(CompareExpr(IdentExpr(n), "Equal", Lit(limit)), Block(<<Break>>))

\* loop { n = n + 1; if (n == limit) { break; } }
CountLoop(n, limit) == Loop(Block(<<Increment(n), BreakAt(n, limit)>>))

\* { i = 0; loop { i = i + 1; if (i == limit) { break; } } return i; }
CountProgram(limit) ==
    Block(<<Assign("i", Lit(0)), CountLoop("i", limit), ReturnStatement(IdentExpr("i"))>>)

\* loop { n = n + 1; if (n == limit) { break; } return n; }
ReturningCountLoop(n, limit) ==
    Loop(Block(<<Increment(n), BreakAt(n, limit), ReturnStatement(IdentExpr(n))>>))

LoopStatements ==
    {CountLoop(n, limit) : n \in Names, limit \in 1..MaxInt}
    \cup {ReturningCountLoop(n, limit) : n \in Names, limit \in 1..MaxInt}
    \cup {Loop(Block(<<ReturnStatement(Lit(1))>>)),
          Loop(Block(<<ReturnStatement(IdentExpr("a")), Assign("b", Lit(2))>>)),
          Loop(Block(<<Assign("b", Lit(2)), SimpleStatement(IdentExpr("undefined"))>>)),
          Loop(Block(<<Break, Assign("b", Lit(2))>>)),
          Loop(Break)}

\* The blocks whose effect on the enclosing environment is observed.
BlockTails(n) ==
    {<<>>, <<ReturnStatement(IdentExpr(n))>>, <<Break>>,
     <<SimpleStatement(IdentExpr("undefined"))>>,
     <<Block(<<Assign("b", Lit(1))>>)>>}

InnerBlocks ==
    UNION {{Block(<<Assign(n, Lit(2))>> \o tail) : tail \in BlockTails(n)} : n \in Names}
    \cup {Block(<<Assign("a", Lit(0)), CountLoop("a", 2)>>),
          Block(<<IfElse(Lit(0), Block(<<>>), Assign("a", Lit(2)))>>),
          Block(<<Increment("a"), Increment("b")>>),
          Block(<<>>)}

\* { B  return n; }: the block B, then a read of n in the enclosing block.
Probe(B, n) == Block(<<B, ReturnStatement(IdentExpr(n))>>)

\* { a = 1; { b = 2; } return b; }
ScopeTest == Block(<<Assign("a", Lit(1)), Block(<<Assign("b", Lit(2))>>), ReturnStatement(IdentExpr("b"))>>)

BlockStatements ==
    InnerBlocks
    \cup {Probe(B, n) : B \in InnerBlocks, n \in Names}
    \cup {ScopeTest}
    \cup {CountProgram(limit) : limit \in 1..MaxCount}
    \cup {Block(<<Assign("a", Lit(0)), l, ReturnStatement(Lit(0))>>) :
            l \in {ReturningCountLoop("a", 2), Loop(Block(<<ReturnStatement(Lit(1))>>))}}

\* if (c) {return 3;}, if (c) {return 3;} else {return 4;} and
\* if (c) {b = 3;} else b = 4; for conditions c of every kind of value.
IfConditions ==
    Atoms \cup {Lit(0), Lit(2), ConstExpr(BoolValue(FALSE)), ConstExpr(NoneValue)}

IfStatements ==
    {If(c, Block(<<ReturnStatement(Lit(3))>>)) : c \in IfConditions}
    \cup {IfElse(c, Block(<<ReturnStatement(Lit(3))>>), Block(<<ReturnStatement(Lit(4))>>)) :
            c \in IfConditions}
    \cup {IfElse(c, Assign("b", Lit(3)), Assign("b", Lit(4))) : c \in IfConditions}

PlainStatements ==
    {SimpleStatement(e) : e \in AssignmentExprs}
    \cup {ReturnStatement(e) : e \in Atoms}
    \cup {Break}

StatementCalls ==
    {[what |-> "stmt", expr |-> NoExpr, stmt |-> s, module |-> NoModule] :
        s \in LoopStatements \cup BlockStatements \cup PlainStatements \cup IfStatements}
    \cup {[what |-> "stmt", expr |-> NoExpr, stmt |-> s, module |-> TestModule] :
        s \in {Block(<<SimpleStatement(e)>>) : e \in CallExprs}}

NoCall == [what |-> "none", expr |-> NoExpr, stmt |-> Break, module |-> NoModule]

\* Values the harness inserts into its map before a call (module.rs:110).
HarnessValues == {IntValue(0), IntValue(1)}

(***************************************************************************)
(* The texts that are tokenized, parsed and evaluated: chains              *)
(* "a op1 b op2 c" of integer operands, and a few malformed lines.         *)
(***************************************************************************)
Operands == (0..MaxLit) \cup {10, -1}

\* The decimal numeral of n, 0 <= n <= 99.
Numeral(n) ==
    IF n < 10 THEN <<DigitChars[n + 1]>>
    ELSE <<DigitChars[(n \div 10) + 1], DigitChars[(n % 10) + 1]>>

OperandText(v) == IF v < 0 THEN <<"-">> \o Numeral(-v) ELSE Numeral(v)
OperandExpr(v) == IF v < 0 THEN NegExpr(Lit(-v)) ELSE Lit(v)

OpChar(op) ==
    CASE op = "Plus" -> "+" [] op = "Minus" -> "-" [] op = "Times" -> "*" [] OTHER -> "/"

Chain(a, op1, b, op2, c, spaced) ==
    [form |-> "chain", a |-> a, op1 |-> op1, b |-> b, op2 |-> op2, c |-> c,
     spaced |-> spaced, raw |-> <<>>]
Paren(a, op1, b, op2, c) ==
    [form |-> "paren", a |-> a, op1 |-> op1, b |-> b, op2 |-> op2, c |-> c,
     spaced |-> FALSE, raw |-> <<>>]
Raw(chars) ==
    [form |-> "raw", a |-> 0, op1 |-> "", b |-> 0, op2 |-> "", c |-> 0,
     spaced |-> FALSE, raw |-> chars]
NoLine == [form |-> "none", a |-> 0, op1 |-> "", b |-> 0, op2 |-> "", c |-> 0,
           spaced |-> FALSE, raw |-> <<>>]

Gap(line) == IF line.spaced THEN <<" ">> ELSE <<>>

\* The characters of a line.
Render(line) ==
    IF line.form = "chain"
    THEN OperandText(line.a) \o Gap(line) \o <<OpChar(line.op1)>> \o Gap(line)
         \o OperandText(line.b) \o Gap(line) \o <<OpChar(line.op2)>> \o Gap(line)
         \o OperandText(line.c)
    ELSE IF line.form = "paren"
    THEN <<"(">> \o OperandText(line.a) \o <<OpChar(line.op1)>> \o OperandText(line.b)
         \o <<")">> \o <<OpChar(line.op2)>> \o OperandText(line.c)
    ELSE line.raw

\* The operand triples that are also entered with blanks around the
\* operators: "1 + 2 * 3", "10 - 3 - 2".
SpacedOperands == {<<1, 2, 3>>, <<10, 3, 2>>}

\* 65536, 2147483647 = 2^31 - 1, 4294967296 = 2^32 and 4294967297
LongNumerals ==
    {<<"6", "5", "5", "3", "6">>,
     <<"2", "1", "4", "7", "4", "8", "3", "6", "4", "7">>,
     <<"4", "2", "9", "4", "9", "6", "7", "2", "9", "6">>,
     <<"4", "2", "9", "4", "9", "6", "7", "2", "9", "7">>}

Lines ==
    {Chain(a, op1, b, op2, c, FALSE) : a \in Operands, op1 \in Ops, b \in Operands \ {-1},
                                       op2 \in Ops, c \in Operands \ {-1}}
    \cup {Chain(t[1], op1, t[2], op2, t[3], TRUE) : t \in SpacedOperands, op1 \in Ops, op2 \in Ops}
    \cup {Chain(1, op1, -1, op2, -1, FALSE) : op1 \in Ops, op2 \in Ops}
    \cup {Paren(a, op1, b, op2, c) : a \in 1..MaxLit, op1 \in Ops, b \in 1..MaxLit,
                                     op2 \in Ops, c \in 1..MaxLit}
    \cup {Raw(<<"1", "+">>), Raw(<<"1", " ", "2">>), Raw(<<"1", "?", "2">>),
          Raw(<<"1", " ", "+", " ", "1", " ", "=", "=", " ", "2">>),
          Raw(<<"(", "a", "=", "1", ")", "+", "1">>), Raw(<<"a">>), Raw(<<"1", "+", "a">>)}
    \cup {Raw(digits) : digits \in LongNumerals}

\* The texts that are parsed as statements, as one block or as a module.
Program(form, chars) ==
    [form |-> form, a |-> 0, op1 |-> "", b |-> 0, op2 |-> "", c |-> 0,
     spaced |-> FALSE, raw |-> chars]

\* return foo(1) + foo(2);
ReturnSumOfCalls ==
  Program("statements",
    <<"r", "e", "t", "u", "r", "n", " ", "f", "o", "o", "(", "1", ")", " ",
      "+", " ", "f", "o", "o", "(", "2", ")", ";">>)

\* {a=1;b=1;c=a+b;a+b;}
BraceBlock ==
  Program("compound",
    <<"{", "a", "=", "1", ";", "b", "=", "1", ";", "c", "=", "a", "+", "b",
      ";", "a", "+", "b", ";", "}">>)

\* [a=1;b=1;c=a+b;a+b;]
BracketBlock ==
  Program("compound",
    <<"[", "a", "=", "1", ";", "b", "=", "1", ";", "c", "=", "a", "+", "b",
      ";", "a", "+", "b", ";", "]">>)

\* fn main() { return 1; }
BraceMain ==
  Program("module",
    <<"f", "n", " ", "m", "a", "i", "n", "(", ")", " ", "{", " ", "r", "e",
      "t", "u", "r", "n", " ", "1", ";", " ", "}">>)

\* fn main() [ return 1; ]
BracketMain ==
  Program("module",
    <<"f", "n", " ", "m", "a", "i", "n", "(", ")", " ", "[", " ", "r", "e",
      "t", "u", "r", "n", " ", "1", ";", " ", "]">>)

\* fn main() [ return 1; ] fn bar(1) [ ]
BadParameterList ==
  Program("module",
    <<"f", "n", " ", "m", "a", "i", "n", "(", ")", " ", "[", " ", "r", "e",
      "t", "u", "r", "n", " ", "1", ";", " ", "]", " ", "f", "n", " ", "b",
      "a", "r", "(", "1", ")", " ", "[", " ", "]">>)

\* fn main() [ return 1; ] fn bar() return 2;
MissingBody ==
  Program("module",
    <<"f", "n", " ", "m", "a", "i", "n", "(", ")", " ", "[", " ", "r", "e",
      "t", "u", "r", "n", " ", "1", ";", " ", "]", " ", "f", "n", " ", "b",
      "a", "r", "(", ")", " ", "r", "e", "t", "u", "r", "n", " ", "2", ";">>)

\* fn main() [ return 1; ] 1 + 1
TrailingTokens ==
  Program("module",
    <<"f", "n", " ", "m", "a", "i", "n", "(", ")", " ", "[", " ", "r", "e",
      "t", "u", "r", "n", " ", "1", ";", " ", "]", " ", "1", " ", "+", " ",
      "1">>)

\* fn main() [ return 1; ] fn (a) [ ]
MissingName ==
  Program("module",
    <<"f", "n", " ", "m", "a", "i", "n", "(", ")", " ", "[", " ", "r", "e",
      "t", "u", "r", "n", " ", "1", ";", " ", "]", " ", "f", "n", " ", "(",
      "a", ")", " ", "[", " ", "]">>)

\* [ a ]
NoSemicolonBlock == Program("compound", <<"[", " ", "a", " ", "]">>)

\* [ a [ b; ] ]
NoSemicolonBeforeBlock ==
  Program("compound", <<"[", " ", "a", " ", "[", " ", "b", ";", " ", "]", " ", "]">>)

\* [ a b; ]
NoSemicolonBetween == Program("compound", <<"[", " ", "a", " ", "b", ";", " ", "]">>)

Programs ==
    {ReturnSumOfCalls,
     BraceBlock,
     BracketBlock,
     BraceMain,
     BracketMain,
     BadParameterList,
     MissingBody,
     TrailingTokens,
     MissingName,
     NoSemicolonBlock,
     NoSemicolonBeforeBlock,
     NoSemicolonBetween}

\* The texts handed to one parsing method with the cursor at 0, as the
\* tests hand "fn my_func_name() {...}" to parse_one_function
\* (parser.rs:488-537): the form names the method.
SubParsers == {"parse_one_statement", "parse_primary_expr",
               "parse_function_call_argument_list", "parse_one_function"}

\* The parameter lists that the declaration grammar
\* 'fn' Identifier '(' [Identifier (',' Identifier)*] ')' CompoundStatement
\* does not derive, each in a declaration handed to parse_one_function.
MalformedParameterLists ==
    {\* fn f(a b) [ ]
     Program("parse_one_function",
             <<"f", "n", " ", "f", "(", "a", " ", "b", ")", " ", "[", " ", "]">>),
     \* fn f(, a) [ ]
     Program("parse_one_function",
             <<"f", "n", " ", "f", "(", ",", " ", "a", ")", " ", "[", " ", "]">>),
     \* fn f(a, ) [ ]
     Program("parse_one_function",
             <<"f", "n", " ", "f", "(", "a", ",", " ", ")", " ", "[", " ", "]">>),
     \* fn f(a, , b) [ ]
     Program("parse_one_function",
             <<"f", "n", " ", "f", "(", "a", ",", " ", ",", " ", "b", ")", " ",
             "[", " ", "]">>),
     \* fn f(a
     Program("parse_one_function",
             <<"f", "n", " ", "f", "(", "a">>)}

\* fn f(a, b) [ ]
TwoParameters ==
    Program("parse_one_function",
            <<"f", "n", " ", "f", "(", "a", ",", " ", "b", ")", " ", "[", " ",
            "]">>)

Fragments ==
    MalformedParameterLists \cup {TwoParameters} \cup
    {Program("parse_one_statement", <<"r", "e", "t", "u", "r", "n", " ", ";">>),
     Program("parse_one_statement", <<"a">>),
     Program("parse_one_statement", <<"a", ";">>),
     Program("parse_one_statement", <<"e", "l", "s", "e">>),
     Program("parse_one_statement", <<"i", "f", " ", "(", "1", ")", " ", "2">>),
     Program("parse_primary_expr", <<"-", " ", ")">>),
     Program("parse_primary_expr", <<"-", " ", "1">>),
     Program("parse_primary_expr", <<")">>),
     Program("parse_primary_expr", <<"(", "1">>),
     Program("parse_function_call_argument_list", <<"(", "1", " ", "+">>),
     Program("parse_function_call_argument_list", <<"(", "1", ",", "2", ")">>),
     Program("parse_function_call_argument_list", <<"1">>),
     Program("parse_one_function", <<"f", "n", " ", "(", "a", ")">>),
     Program("parse_one_function", <<"f", "n", " ", "f", "(", "1", ")">>),
     Program("parse_one_function", <<"f", "n", " ", "f", "(", ")", " ", "1">>),
     Program("parse_one_function", <<"f", "n", " ", "f", "(", ")", " ", "[", "]">>),
     Program("parse_one_function", <<"1">>)}

\* What parse_statements, parse_compound_statement or parse_module yielded:
\* the statements or the module, the cursor left, and for a module what
\* the attempt that ended the loop of parse_module had yielded.
NoUnit == [k |-> "None", statements |-> <<>>, module |-> NoModule, index |-> 0, last |-> ""]

NotLexed == [k |-> "None", tokens |-> <<>>, ch |-> ""]
NotYetParsed == [k |-> "None", ast |-> NoExpr, index |-> 0]

(***************************************************************************)
(* The state: a harness holding one environment, as the tests and the      *)
(* shell do, and calling eval on it.                                       *)
(***************************************************************************)
VARIABLES
    env,      \* the harness's HashMap<String, Value>
    before,   \* env as it was when the last call started
    cur,      \* the last call: the expression or statement, and the module
    out,      \* what the last call yielded
    pc,       \* "ready", "returned", "aborted" (panic) or "hung"; for a text
              \* also "read", "lexed", "parsed" and "rejected"
    typed,    \* what was entered as text
    text,     \* the text, a sequence of characters
    lexed,    \* what tokenize yielded for text
    parsed,   \* what parse_expression yielded for the tokens
    unit      \* what the statement or module parser yielded for the tokens

vars == <<env, before, cur, out, pc, typed, text, lexed, parsed, unit>>
front == <<typed, text, lexed, parsed, unit>>

\* The values the model lets the harness environment hold.
ValueInRange(v) ==
    /\ v.kind = "IntValue" => Abs(v.i) <= MaxInt
    /\ v.kind = "List" =>
          /\ Len(v.l) <= MaxListLen
          /\ \A i \in 1..Len(v.l) : v.l[i].kind = "IntValue" /\ Abs(v.l[i].i) <= MaxInt

InRange(buf) == \A n \in DOMAIN buf : ValueInRange(buf[n])

Init ==
    /\ env = EmptyEnv
    /\ before = EmptyEnv
    /\ cur = NoCall
    /\ out = OkNone
    /\ pc = "ready"
    /\ typed = NoLine
    /\ text = <<>>
    /\ lexed = NotLexed
    /\ parsed = NotYetParsed
    /\ unit = NoUnit

\* inputs.insert(name, value) by the harness
InsertVar(name, v) ==
    /\ pc = "ready"
    /\ env' = Insert(env, name, v)
    /\ UNCHANGED <<before, cur, out, pc, front>>

\* The state a call that yielded r leaves.
AfterCall(call, r) ==
    /\ r.res.k # "Unfinished"
    /\ Returned(r.res) => InRange(r.buf)
    /\ before' = env
    /\ cur' = call
    /\ out' = r.res
    /\ env' = IF Returned(r.res) THEN r.buf ELSE env
    /\ pc' = IF Returned(r.res) THEN "returned"
             ELSE IF r.res.k = "Panic" THEN "aborted" ELSE "hung"

\* expr.eval(&mut inputs, module)
EvalExprCall(call) ==
    /\ pc = "ready"
    /\ AfterCall(call, EvalExpr(call.expr, env, call.module, MaxDepth))
    /\ UNCHANGED front

\* statement.eval(&mut inputs, module)
EvalStatementCall(call) ==
    /\ pc = "ready"
    /\ AfterCall(call, EvalStatement(call.stmt, env, call.module, MaxDepth))
    /\ UNCHANGED front

\* The harness has looked at the result and goes on.
Continue ==
    /\ pc \in {"returned", "rejected"}
    /\ pc' = "ready"
    /\ cur' = NoCall
    /\ out' = OkNone
    /\ before' = env
    /\ typed' = NoLine
    /\ text' = <<>>
    /\ lexed' = NotLexed
    /\ parsed' = NotYetParsed
    /\ unit' = NoUnit
    /\ UNCHANGED env

Next ==
    \/ \E n \in Names, v \in HarnessValues : InsertVar(n, v)
    \/ \E call \in ExprCalls : EvalExprCall(call)
    \/ \E call \in StatementCalls : EvalStatementCall(call)
    \/ Continue

Spec == Init /\ [][Next]_vars

(***************************************************************************)
(* The module tests: a map holding n (and a), calls of the functions of a  *)
(* module, and module.run().                                               *)
(***************************************************************************)
\* module.run()
RunModuleCall(module) ==
    /\ pc = "ready"
    /\ LET r == ModuleRun(module)
       IN  /\ r.k # "Unfinished"
           /\ out' = r
           /\ pc' = IF Returned(r) THEN "returned"
                    ELSE IF r.k = "Panic" THEN "aborted" ELSE "hung"
    /\ before' = env
    /\ cur' = [what |-> "run", expr |-> NoExpr, stmt |-> Break, module |-> module]
    /\ UNCHANGED <<env, front>>

ModuleNext ==
    \/ \E name \in {"n", "a"}, v \in HarnessValues : InsertVar(name, v)
    \/ \E call \in ModuleCalls : EvalExprCall(call)
    \/ \E module \in Modules : RunModuleCall(module)
    \/ Continue

ModuleSpec == Init /\ [][ModuleNext]_vars

(***************************************************************************)
(* The front end, as the shell and the tests drive it: a line is read,     *)
(* tokenized, parsed as one expression and evaluated.                      *)
(***************************************************************************)
\* stdin().read_line(&mut s) (shell.rs:30-32)
ReadLine(line) ==
    /\ pc = "ready"
    /\ typed' = line
    /\ text' = Render(line)
    /\ pc' = "read"
    /\ UNCHANGED <<env, before, cur, out, lexed, parsed, unit>>

\* tokenize(&s), in a build that checks arithmetic overflow or in one
\* that does not.
Lex(checked) ==
    /\ pc = "read"
    /\ lexed' = Tokenize(text, checked)
    /\ pc' = IF lexed'.k = "Ok" THEN "lexed"
             ELSE IF lexed'.k = "Panic" THEN "aborted" ELSE "rejected"
    /\ UNCHANGED <<env, before, cur, out, typed, text, parsed, unit>>

\* parse_expression(&tokens)
Parse ==
    /\ pc = "lexed"
    /\ typed.form \in {"chain", "paren", "raw"}
    /\ parsed' = ParseExpressionAll(lexed.tokens)
    /\ pc' = IF parsed'.k = "Ok" THEN "parsed" ELSE "rejected"
    /\ UNCHANGED <<env, before, cur, out, typed, text, lexed, unit>>

\* ast.eval(&mut vars, None)
EvalParsed ==
    /\ pc = "parsed"
    /\ typed.form \in {"chain", "paren", "raw"}
    /\ AfterCall([what |-> "expr", expr |-> parsed.ast, stmt |-> Break, module |-> NoModule],
                 EvalExpr(parsed.ast, env, NoModule, MaxDepth))
    /\ UNCHANGED front

\* parser.parse_statements()
ParseStatementsCall ==
    /\ pc = "lexed"
    /\ typed.form = "statements"
    /\ LET statements == ParseStatements(lexed.tokens)
       IN  unit' = [k |-> "Ok", statements |-> statements.val, module |-> NoModule,
                    index |-> statements.index, last |-> ""]
    /\ pc' = "parsed"
    /\ UNCHANGED <<env, before, cur, out, typed, text, lexed, parsed>>

\* parser.parse_compound_statement()
ParseCompoundStatementCall ==
    /\ pc = "lexed"
    /\ typed.form = "compound"
    /\ LET block == ParseCompoundStatement(lexed.tokens, 0)
       IN  /\ unit' = [k |-> IF block.ok THEN "Ok" ELSE "None",
                       statements |-> IF block.ok THEN <<block.val>> ELSE <<>>,
                       module |-> NoModule, index |-> block.index, last |-> ""]
           /\ pc' = IF block.ok THEN "parsed" ELSE "rejected"
    /\ UNCHANGED <<env, before, cur, out, typed, text, lexed, parsed>>

\* parser.parse_module()
ParseModuleCall ==
    /\ pc = "lexed"
    /\ typed.form = "module"
    /\ LET declarations == ParseDeclarations(lexed.tokens, 0, <<>>)
       IN  unit' = [k |-> "Ok", statements |-> <<>>, module |-> ParseModule(lexed.tokens),
                    index |-> declarations.index, last |-> declarations.last]
    /\ pc' = "parsed"
    /\ UNCHANGED <<env, before, cur, out, typed, text, lexed, parsed>>

\* One parsing method called on a new Parser, as the tests call
\* parser.parse_one_function() (parser.rs:496): k is "Ok" when it yielded
\* Some(..) or Ok(Some(..)), "None" when it yielded None, Ok(None) or an
\* error, which last names; declarations holds the declaration that
\* parse_one_function yielded.
SubParse(which, tokens) ==
    IF which = "parse_one_function"
    THEN LET ast == ParseOneFunction(tokens, 0)
         IN  [ok |-> ast.k = "Some", index |-> ast.index, last |-> ast.k,
              declarations |-> IF ast.k = "Some" THEN <<ast.val>> ELSE <<>>]
    ELSE LET ast == IF which = "parse_one_statement" THEN ParseOneStatement(tokens, 0)
                    ELSE IF which = "parse_primary_expr" THEN ParsePrimaryExpr(tokens, 0)
                    ELSE ParseFunctionCallArgumentList(tokens, 0)
         IN  [ok |-> ast.ok, index |-> ast.index, last |-> IF ast.ok THEN "Some" ELSE "None",
              declarations |-> <<>>]

SubParseCall ==
    /\ pc = "lexed"
    /\ typed.form \in SubParsers
    /\ LET ast == SubParse(typed.form, lexed.tokens)
       IN  /\ unit' = [k |-> IF ast.ok THEN "Ok" ELSE "None", statements |-> <<>>,
                       module |-> IF ast.declarations = <<>> THEN NoModule
                                  ELSE SomeModule(ast.declarations),
                       index |-> ast.index, last |-> ast.last]
           /\ pc' = IF ast.ok THEN "parsed" ELSE "rejected"
    /\ UNCHANGED <<env, before, cur, out, typed, text, lexed, parsed>>

\* statements[0].eval(&mut HashMap::new(), None), as the tests do
\* (statement.rs:137-138); indexing an empty list aborts.
EvalFirstStatement ==
    /\ pc = "parsed"
    /\ typed.form \in {"statements", "compound"}
    /\ LET r == IF unit.statements = <<>> THEN Panic
                ELSE EvalStatement(unit.statements[1], EmptyEnv, NoModule, MaxDepth).res
       IN  /\ r.k # "Unfinished"
           /\ out' = r
           /\ pc' = IF Returned(r) THEN "returned"
                    ELSE IF r.k = "Panic" THEN "aborted" ELSE "hung"
    /\ UNCHANGED <<env, before, cur, front>>

\* module.run()
RunModule ==
    /\ pc = "parsed"
    /\ typed.form = "module"
    /\ LET r == ModuleRun(unit.module)
       IN  /\ r.k # "Unfinished"
           /\ out' = r
           /\ pc' = IF Returned(r) THEN "returned"
                    ELSE IF r.k = "Panic" THEN "aborted" ELSE "hung"
    /\ UNCHANGED <<env, before, cur, front>>

FrontNext ==
    \/ \E line \in Lines \cup Programs \cup Fragments : ReadLine(line)
    \/ \E checked \in BOOLEAN : Lex(checked)
    \/ Parse
    \/ EvalParsed
    \/ ParseStatementsCall
    \/ ParseCompoundStatementCall
    \/ ParseModuleCall
    \/ SubParseCall
    \/ EvalFirstStatement
    \/ RunModule
    \/ Continue

FrontSpec == Init /\ [][FrontNext]_vars

(***************************************************************************)
(* Properties.  Each is stated over the last call (cur), the environment   *)
(* it started from (before), the environment it left (env) and what it     *)
(* yielded (out).                                                          *)
(***************************************************************************)
IsStatement(kind) == cur.what = "stmt" /\ cur.stmt.stmt = kind
IsExpr(kind) == cur.what = "expr" /\ cur.expr.node = kind

\* The results of the operands of the binary expression cur.expr, as
\* eval obtains them: the left one in before, the right one after it.
LeftOperand == EvalExpr(cur.expr.args[1], before, cur.module, MaxDepth)
RightOperand == EvalExpr(cur.expr.args[2], LeftOperand.buf, cur.module, MaxDepth)
OperandsReturned == Returned(LeftOperand.res) /\ Returned(RightOperand.res)

\* C1: a compound block that has finished, whatever its outcome, leaves the
\* enclosing environment as it was; a name the block binds or rebinds reads
\* after the block as it did before it, and { a = 1; { b = 2; } return b; }
\* fails with unknown variable b when b was not bound outside.
C1_BlockLeavesEnclosingEnvironment ==
    (pc = "returned" /\ IsStatement("CompoundStatement")) =>
        /\ env = before
        /\ \A B \in InnerBlocks, n \in Names :
              cur.stmt = Probe(B, n) =>
                  LET inner == EvalStatement(B, before, cur.module, MaxDepth).res
                  IN  out = IF inner = OkNone THEN ReturnResult(Lookup(before, n)) ELSE inner
        /\ (cur.stmt = ScopeTest /\ "b" \notin DOMAIN before) =>
              out = Err(UnknownVariable("b"))

C1_Witness ==
    /\ pc = "returned"
    /\ cur.what = "stmt" /\ cur.stmt = ScopeTest
    /\ "b" \notin DOMAIN before
    /\ out = Err(UnknownVariable("b"))
    /\ env = before

\* C2: the callee's environment holds bindings of its parameters only, and
\* a callee that returns a name that is not one of its parameters fails
\* with unknown variable, whatever the caller's environment binds.
C2_CalleeSeesOnlyItsParameters ==
    (IsExpr("FunctionCall") /\ cur.module.some /\ HasFunction(cur.module, cur.expr.name)) =>
        LET f == GetFunction(cur.module, cur.expr.name)
            params == {f.fargs[i] : i \in 1..Len(f.fargs)}
            a == EvalArgs(f.fargs, cur.expr.args, 1, before, NewFunctionInputs(before),
                          cur.module, MaxDepth)
        IN  /\ Returned(a.res) => DOMAIN a.fin \subseteq params
            /\ \A x \in Names :
                  (/\ pc = "returned"
                   /\ f.fbody = Block(<<ReturnStatement(IdentExpr(x))>>)
                   /\ x \notin params) => out = Err(UnknownVariable(x))

C2_Witness ==
    /\ pc = "returned"
    /\ cur.what = "expr" /\ cur.expr = FunctionCall("foo", <<>>) /\ cur.module = TestModule
    /\ "a" \in DOMAIN before
    /\ out = Err(UnknownVariable("a"))

\* C3: a loop whose body yields a return outcome in its first pass comes
\* back with that return outcome at once, and a call of first(), whose loop
\* returns 1 in its first pass, yields 1.
C3_ReturnLeavesLoop ==
    /\ (IsStatement("Loop") /\ cur.stmt.body[1].stmt = "CompoundStatement") =>
          LET pass == EvalStatementList(before, cur.module, cur.stmt.body[1].body, 1, MaxDepth)
          IN  (pass.res.k = "Ok" /\ pass.res.se = "Return") =>
                  /\ pc = "returned"
                  /\ out = pass.res
                  /\ env = pass.buf
    /\ (cur.what = "expr" /\ cur.expr = FunctionCall("first", <<>>) /\ cur.module = TestModule) =>
          (pc = "returned" /\ out = Ok(IntValue(1)))

\* C4: the loop { n = n + 1; if (n == N) { break; } } entered with n bound
\* to 0 comes back with no value and n bound to N, and the block
\* { i = 0; loop {...} return i; } returns N, for every N from 1 to MaxCount.
C4_CountingLoopEndsAtLimit ==
    /\ \A limit \in 1..MaxCount :
          (cur.what = "stmt" /\ cur.stmt = CountProgram(limit)) =>
              (pc = "returned" /\ out = OkReturn(IntValue(limit)))
    /\ \A n \in Names, limit \in 1..MaxInt :
          (/\ cur.what = "stmt" /\ cur.stmt = CountLoop(n, limit)
           /\ Lookup(before, n) = Ok(IntValue(0))) =>
              /\ pc = "returned"
              /\ out = OkNone
              /\ env = Insert(before, n, IntValue(limit))

C4_Witness ==
    /\ pc = "returned"
    /\ cur.what = "stmt" /\ cur.stmt = CountProgram(10)
    /\ out = OkReturn(IntValue(10))

\* C5: an assignment whose right-hand side fails comes back with that same
\* error, and the assigned name is bound after it exactly as before it.
C5_FailedAssignmentFails ==
    (IsExpr("AssignmentExpr") /\ LeftOperand.res.k = "Err") =>
        /\ pc = "returned"
        /\ out = LeftOperand.res
        /\ Lookup(env, cur.expr.name) = Lookup(before, cur.expr.name)

C7_MultiErrorExactlyWhenBothFail ==
    (pc = "returned" /\ IsExpr("BinaryExpr") /\ OperandsReturned) =>
        ((out.k = "Err" /\ out.e.kind = "MultipleError")
            <=> (LeftOperand.res.k = "Err" /\ RightOperand.res.k = "Err"))

\* C7: when both operands of a binary expression fail, it comes back with
\* the multi-error of exactly the left and the right operand's error, in
\* that order; when exactly one fails, with that operand's error as it is
\* (which is a multi-error when the operand is itself a binary expression
\* whose two operands failed).
C7_ErrorsOfOperands ==
    (pc = "returned" /\ IsExpr("BinaryExpr") /\ OperandsReturned) =>
        LET l == LeftOperand.res
            r == RightOperand.res
        IN  /\ (l.k = "Err" /\ r.k = "Err") => out = Err(MultipleError(<<l.e, r.e>>))
            /\ (l.k = "Err" /\ r.k = "Ok") => out = l
            /\ (l.k = "Ok" /\ r.k = "Err") => out = r
            /\ (out.k = "Err" /\ out.e.kind = "MultipleError") =>
                  \/ l.k = "Err" /\ r.k = "Err" /\ out.e.causes = <<l.e, r.e>>
                  \/ l.k = "Err" /\ r.k = "Ok" /\ l.e.kind = "MultipleError"
                  \/ l.k = "Ok" /\ r.k = "Err" /\ r.e.kind = "MultipleError"

C7_Witness ==
    /\ pc = "returned"
    /\ cur.what = "expr" /\ cur.expr = BinaryExpr(IdentExpr("a"), "Plus", IdentExpr("b"))
    /\ before = EmptyEnv
    /\ out = Err(MultipleError(<<UnknownVariable("a"), UnknownVariable("b")>>))

\* C8: a binary expression whose operands both yield a value, but not two
\* integers and not two lists, comes back with an error value.
C8_MixedOperandsGiveTypeError ==
    (IsExpr("BinaryExpr") /\ OperandsReturned) =>
        LET l == LeftOperand.res
            r == RightOperand.res
        IN  (/\ l.k = "Ok" /\ r.k = "Ok"
             /\ ~(l.v.kind = "IntValue" /\ r.v.kind = "IntValue")
             /\ ~(l.v.kind = "List" /\ r.v.kind = "List")) =>
                (pc = "returned" /\ out.k = "Err" /\ out.e.kind = "Error")

SameTier(op1, op2) ==
    \/ {op1, op2} \subseteq {"Plus", "Minus"}
    \/ {op1, op2} \subseteq {"Times", "Div"}

Evaluated == pc \in {"returned", "aborted"} /\ typed.form = "chain"

\* C9: the text "a op1 b op2 c" with op1 and op2 of the same tier yields
\* the value of (a op1 b) op2 c.
C9_SameTierLeftAssociative ==
    (Evaluated /\ SameTier(typed.op1, typed.op2)) =>
        out = BinaryResult(IntArith(typed.op1, typed.a, typed.b), typed.op2,
                           Ok(IntValue(typed.c)))

\* C10: the text "a op1 b op2 c" with one of op1, op2 among + - and the
\* other among * / parses with the * or / operation as an operand of the
\* + or - operation and yields the value of that tree; "1 + 2 * 3" yields 7.
C10_MultiplicativeBindsTighter ==
    (typed.form = "chain" /\ ~SameTier(typed.op1, typed.op2)
        /\ pc \in {"parsed", "rejected", "returned", "aborted"}) =>
        LET a == OperandExpr(typed.a)
            b == OperandExpr(typed.b)
            c == OperandExpr(typed.c)
            tight1 == typed.op1 \in {"Times", "Div"}
        IN  /\ parsed.k = "Ok"
            /\ parsed.ast = IF tight1
                            THEN BinaryExpr(BinaryExpr(a, typed.op1, b), typed.op2, c)
                            ELSE BinaryExpr(a, typed.op1, BinaryExpr(b, typed.op2, c))
            /\ pc \in {"returned", "aborted"} =>
                  out = IF tight1
                        THEN BinaryResult(IntArith(typed.op1, typed.a, typed.b), typed.op2,
                                          Ok(IntValue(typed.c)))
                        ELSE BinaryResult(Ok(IntValue(typed.a)), typed.op1,
                                          IntArith(typed.op2, typed.b, typed.c))
            /\ (pc = "returned" /\ <<typed.a, typed.op1, typed.b, typed.op2, typed.c>>
                                     = <<1, "Plus", 2, "Times", 3>>) => out = Ok(IntValue(7))

C10_Witness ==
    /\ pc = "returned"
    /\ typed = Chain(1, "Plus", 2, "Times", 3, TRUE)
    /\ out = Ok(IntValue(7))

FrontDone == pc \in {"parsed", "rejected", "returned", "aborted"}

\* C11, as the specification states it: "(1 + 2) * 3" yields 8.
C11_ParenthesisYieldsEight ==
    (pc = "returned" /\ typed = Paren(1, "Plus", 2, "Times", 3)) => out = Ok(IntValue(8))

\* C11: the text "(a op1 b) op2 c" parses with the parenthesized operation
\* as the left operand of op2 and yields the value of (a op1 b) op2 c,
\* whatever the tiers of op1 and op2; "(1+2)*3" yields 9.
C11_ParenthesisGroups ==
    (typed.form = "paren" /\ FrontDone) =>
        /\ parsed.k = "Ok"
        /\ parsed.ast = BinaryExpr(ParenthesisExpr(BinaryExpr(Lit(typed.a), typed.op1, Lit(typed.b))),
                                   typed.op2, Lit(typed.c))
        /\ pc \in {"returned", "aborted"} =>
              out = BinaryResult(IntArith(typed.op1, typed.a, typed.b), typed.op2,
                                 Ok(IntValue(typed.c)))
        /\ (pc = "returned" /\ typed = Paren(1, "Plus", 2, "Times", 3)) => out = Ok(IntValue(9))

C11_Witness ==
    /\ pc = "returned"
    /\ typed = Paren(1, "Plus", 2, "Times", 3)
    /\ out = Ok(IntValue(9))

\* C12: the text "1 + 1 == 2" is parsed whole, as a comparison of 1 + 1
\* with 2, and yields the boolean true.
C12_ComparisonParsedAtTop ==
    (typed = Raw(<<"1", " ", "+", " ", "1", " ", "=", "=", " ", "2">>) /\ FrontDone) =>
        /\ parsed.k = "Ok"
        /\ parsed.index = Len(lexed.tokens)
        /\ parsed.ast = CompareExpr(BinaryExpr(Lit(1), "Plus", Lit(1)), "Equal", Lit(2))
        /\ pc \in {"returned", "aborted"} => out = Ok(BoolValue(TRUE))

\* The statement or module parser has come back.
UnitDone == pc \in {"parsed", "rejected", "returned", "aborted", "hung"}

\* C13: the text "return foo(1) + foo(2);" parses whole, as one return
\* statement whose expression adds the two calls.
C13_CallIsAnOperand ==
    (typed = ReturnSumOfCalls /\ UnitDone) =>
        /\ unit.statements =
              <<ReturnStatement(BinaryExpr(FunctionCall("foo", <<Lit(1)>>), "Plus",
                                           FunctionCall("foo", <<Lit(2)>>)))>>
        /\ unit.index = Len(lexed.tokens)

\* C14: the text "{a=1;b=1;c=a+b;a+b;}" parses as one block of four
\* statements, and the same text between "[" and "]" is not a block.
C14_BracesDelimitBlocks ==
    /\ (typed = BraceBlock /\ UnitDone) =>
          /\ unit.k = "Ok"
          /\ Len(unit.statements) = 1
          /\ unit.statements[1] =
                Block(<<Assign("a", Lit(1)), Assign("b", Lit(1)),
                        Assign("c", BinaryExpr(IdentExpr("a"), "Plus", IdentExpr("b"))),
                        SimpleStatement(BinaryExpr(IdentExpr("a"), "Plus", IdentExpr("b")))>>)
    /\ (typed = BracketBlock /\ UnitDone) => unit.k = "None"

\* C15: parse_module yields a module only when the declarations it
\* parsed consumed every token; otherwise the text is rejected.
C15_ModuleOnlyWhenAllConsumed ==
    (typed.form = "module" /\ UnitDone) =>
        \/ pc = "rejected"
        \/ unit.index = Len(lexed.tokens) /\ unit.last = "None"

\* C17: a call of stray(), whose body reaches a break outside every
\* loop, and module.run() on a main that does, come back with an error.
C17_StrayBreakIsAnError ==
    /\ (cur.what = "expr" /\ cur.expr = FunctionCall("stray", <<>>) /\ cur.module = BreakModule) =>
          (pc = "returned" /\ out.k = "Err")
    /\ (cur.what = "run" /\ cur.module = BreakModule) =>
          (pc = "returned" /\ out.k = "Err")

\* C16: a call whose number of arguments differs from the callee's number
\* of parameters never aborts the evaluation; with fewer arguments the
\* missing parameters stay unbound, so that a callee returning its first
\* parameter, called without arguments, fails with unknown variable.
C16_ArityMismatchIsTruncated ==
    (IsExpr("FunctionCall") /\ cur.module.some /\ HasFunction(cur.module, cur.expr.name)) =>
        LET f == GetFunction(cur.module, cur.expr.name)
        IN  Len(cur.expr.args) # Len(f.fargs) =>
                /\ pc # "aborted"
                /\ (/\ Len(cur.expr.args) < Len(f.fargs)
                    /\ f.fbody = Block(<<ReturnStatement(IdentExpr(f.fargs[1]))>>)) =>
                        out = Err(UnknownVariable(f.fargs[1]))

\* C19: a loop whose body fails with an evaluation error in its first pass
\* fails with that same error.
C19_LoopBodyErrorPropagates ==
    (IsStatement("Loop") /\ cur.stmt.body[1].stmt = "CompoundStatement") =>
        LET pass == EvalStatementList(before, cur.module, cur.stmt.body[1].body, 1, MaxDepth)
        IN  pass.res.k = "Err" => (pc = "returned" /\ out = pass.res)

\* C20: an access a[i] of a list a with an integer index yields the
\* element at position i when 0 <= i < len, and an evaluation error, without
\* aborting the evaluation, for every other integer i.
C20_IndexOutOfBoundsIsRecoverable ==
    (/\ IsExpr("ListAccess")
     /\ cur.expr.name \in DOMAIN before
     /\ before[cur.expr.name].kind = "List") =>
        LET index == EvalExpr(cur.expr.args[1], before, cur.module, MaxDepth).res
            values == before[cur.expr.name].l
        IN  (index.k = "Ok" /\ index.v.kind = "IntValue") =>
                /\ pc = "returned"
                /\ IF 0 <= index.v.i /\ index.v.i < Len(values)
                   THEN out = Ok(values[index.v.i + 1])
                   ELSE out.k = "Err"

\* fib(0), fib(1), ..., fib(16)
FibValues == <<0, 1, 1, 2, 3, 5, 8, 13, 21, 34, 55, 89, 144, 233, 377, 610, 987>>

C21_IfTruthValue ==
    IsStatement("If") =>
        LET c == EvalExpr(cur.stmt.expr, before, cur.module, MaxDepth)
            v == c.res.v
            then == EvalStatement(cur.stmt.body[1], c.buf, cur.module, MaxDepth)
            else == EvalStatement(cur.stmt.body[2], c.buf, cur.module, MaxDepth)
        IN  /\ pc = "returned"
            /\ IF c.res.k = "Err" THEN out = c.res /\ env = c.buf
               ELSE IF v.kind \in {"None", "List"}
               THEN out.k = "Err" /\ out.e.kind = "Error" /\ env = c.buf
               ELSE IF (v.kind = "IntValue" /\ v.i # 0) \/ (v.kind = "BoolValue" /\ v.b)
               THEN out = then.res /\ env = then.buf
               ELSE IF Len(cur.stmt.body) = 2
               THEN out = else.res /\ env = else.buf
               ELSE out = OkNone /\ env = c.buf

C21_Witness ==
    /\ pc = "returned"
    /\ cur.what = "stmt"
    /\ cur.stmt = IfElse(Lit(0), Block(<<ReturnStatement(Lit(3))>>), Block(<<ReturnStatement(Lit(4))>>))
    /\ out = OkReturn(IntValue(4))

\* The decimal digits of n >= 0, as characters.
RECURSIVE DecimalDigits(_)
DecimalDigits(n) ==
    IF n < 10 THEN <<DigitChars[n + 1]>>
    ELSE Append(DecimalDigits(n \div 10), DigitChars[(n % 10) + 1])

\* C22: a text that is one run of decimal digits without leading zero, of
\* a value up to 2^63 - 1, is tokenized into one Integer token whose value,
\* written in decimal, is that text: it is neither rejected nor wrapped.
C22_DigitRunKeepsItsValue ==
    (/\ typed.form = "raw"
     /\ typed.raw \in LongNumerals
     /\ lexed # NotLexed) =>
        /\ lexed.k = "Ok"
        /\ Len(lexed.tokens) = 1
        /\ lexed.tokens[1].tok = "Integer"
        /\ DecimalDigits(lexed.tokens[1].int) = text

\* C23, as the specification states it: when parse_one_statement,
\* parse_primary_expr, parse_function_call_argument_list or
\* parse_one_function, called with the cursor at 0, yields no result or an
\* error, the cursor is at 0 again.
C23_FailedSubParseRestoresCursor ==
    (typed.form \in SubParsers /\ pc = "rejected" /\ unit # NoUnit) => unit.index = 0

\* C24, as the specification states it: parse_compound_statement on a
\* block in which an identifier is followed by the closing bracket or by
\* another statement, with no semicolon between, yields no statement.
C24_ExpressionNeedsItsSemicolon ==
    (typed \in {NoSemicolonBlock, NoSemicolonBeforeBlock, NoSemicolonBetween}
        /\ pc \in {"parsed", "rejected"}) =>
        unit.k = "None"

\* The statements of a block taken one by one in source order from
\* statement i on, each in the environment the one before it left: the
\* result and environment of the first one that yields a return, a break
\* or an error (or does not come back), or no value at the end.
RECURSIVE BlockOutcome(_, _, _, _)
BlockOutcome(statements, i, inputs, module) ==
    IF i > Len(statements) THEN [res |-> OkNone, buf |-> inputs]
    ELSE Bind(EvalStatement(statements[i], inputs, module, MaxDepth), LAMBDA r :
             IF r.res.k = "Err" \/ ~Returned(r.res) \/ r.res.se \in {"Return", "Break"}
             THEN r
             ELSE BlockOutcome(statements, i + 1, r.buf, module))

\* C25: a block yields what its first statement with a return, a break or
\* an error yields, and no value when there is none; in a loop, whose body
\* works on the caller's environment, the statements after a break or an
\* error of the first pass have left no binding.
C25_BlockEndsAtFirstOutcome ==
    /\ IsStatement("CompoundStatement") =>
          out = BlockOutcome(cur.stmt.body, 1, before, cur.module).res
    /\ (IsStatement("Loop") /\ cur.stmt.body[1].stmt = "CompoundStatement") =>
          LET pass == BlockOutcome(cur.stmt.body[1].body, 1, before, cur.module)
          IN  (pass.res = OkBreak \/ pass.res.k = "Err") =>
                  (pc = "returned" /\ out = OkNone /\ env = pass.buf)

C25_Witness ==
    /\ pc = "returned"
    /\ IsStatement("Loop")
    /\ cur.stmt = Loop(Block(<<Break, Assign("b", Lit(2))>>))
    /\ "b" \notin DOMAIN env

\* C26, as the specification states it: a declaration whose parameter list
\* has two identifiers with no comma between, a leading, trailing or
\* doubled comma, or no closing parenthesis is reported as
\* WrongFunctionArgumentList.
C26_ParameterListIsStrict ==
    (typed \in MalformedParameterLists /\ pc \in {"parsed", "rejected"}) =>
        unit.last = "WrongFunctionArgumentList"

\* C27, as the specification states it: a call with one argument, of a
\* function with one parameter, whose argument fails in the caller's
\* environment yields the argument's error.
C27_FailingArgumentFailsTheCall ==
    (/\ IsExpr("FunctionCall")
     /\ cur.module.some
     /\ HasFunction(cur.module, cur.expr.name)
     /\ Len(cur.expr.args) = 1
     /\ Len(GetFunction(cur.module, cur.expr.name).fargs) = 1) =>
        LET argument == EvalExpr(cur.expr.args[1], before, cur.module, MaxDepth).res
        IN  argument.k = "Err" => out = argument

\* The caller's environment once the first n argument expressions of a
\* call are evaluated in it, one after the other from argument i on.
RECURSIVE AfterArguments(_, _, _, _, _)
AfterArguments(inputs, n, i, buf, module) ==
    IF i > n THEN buf
    ELSE AfterArguments(inputs, n, i + 1, EvalExpr(inputs[i], buf, module, MaxDepth).buf, module)

\* C28: after a call of a declared function has come back, the caller's
\* environment is the one it had before the call with the bindings made
\* by evaluating the argument expressions, and nothing else: no binding
\* of the callee's body is in it.
C28_CalleeCannotWriteCaller ==
    (/\ IsExpr("FunctionCall")
     /\ pc = "returned"
     /\ cur.module.some
     /\ HasFunction(cur.module, cur.expr.name)) =>
        env = AfterArguments(cur.expr.args, Len(GetFunction(cur.module, cur.expr.name).fargs),
                             1, before, cur.module)

C28_Witness ==
    /\ pc = "returned"
    /\ cur.what = "expr"
    /\ cur.expr = FunctionCall("shadow", <<AssignmentExpr("a", Lit(1))>>)
    /\ cur.module = TestModule
    /\ "a" \notin DOMAIN before
    /\ env = Insert(before, "a", IntValue(1))
    /\ "b" \notin DOMAIN env

\* C29: a binary or comparison expression that has come back leaves the
\* environment its right operand left, the right operand having been
\* evaluated after the left one in the environment the left one left; and
\* when the left operand failed and the right one did not, it yields the
\* left operand's error.
C29_BothOperandsEvaluated ==
    ((IsExpr("BinaryExpr") \/ IsExpr("CompareExpr")) /\ pc = "returned") =>
        /\ env = RightOperand.buf
        /\ (LeftOperand.res.k = "Err" /\ RightOperand.res.k = "Ok") => out = LeftOperand.res

C29_Witness ==
    /\ pc = "returned"
    /\ cur.what = "expr"
    /\ cur.expr = CompareExpr(IdentExpr("b"), "Equal", ParenthesisExpr(AssignmentExpr("a", Lit(1))))
    /\ DOMAIN before = {}
    /\ out = Err(UnknownVariable("b"))
    /\ env = Insert(before, "a", IntValue(1))

\* C30: once parse_expression, parse_statements or parse_module has
\* returned, the cursor is between 0 and the number of tokens, and the
\* free function parse_expression accepts exactly when the expression
\* parsed and the cursor is at the number of tokens.
C30_CursorStaysInsideTheTokens ==
    /\ (typed.form \in {"chain", "paren", "raw"} /\ pc \in {"parsed", "rejected"}
        /\ lexed.k = "Ok") =>
          /\ parsed.index \in 0..Len(lexed.tokens)
          /\ (parsed.k = "Ok") <=>
                (/\ ParseExpression(lexed.tokens, 0).ok
                 /\ parsed.index = Len(lexed.tokens))
    /\ (typed.form \in {"statements", "module"} /\ pc = "parsed") =>
          unit.index \in 0..Len(lexed.tokens)

\* "a": parse_assignment_expr consumes the identifier and then steps past
\* the end; the expression is parsed all the same, up to the end.
C30_Witness ==
    /\ typed = Raw(<<"a">>)
    /\ pc = "parsed"
    /\ Len(lexed.tokens) = 1
    /\ parsed.ast = IdentExpr("a")
    /\ parsed.index = 1

=============================================================================
